---------------------------- MODULE Spec2Model ----------------------------
(***************************************************************************)
(* A model of libnbt's streaming NBT parser (include/nbt_parser.hpp) and   *)
(* of the read-only views over the tree it builds (nbt_utilities).         *)
(*                                                                         *)
(* The parser is the goto-driven pushdown automaton of nbt::parse: a stack *)
(* of control states `ss`, a deque of partial results `ret`, and an input  *)
(* stream read left to right.  Every case label of the dispatch switch is  *)
(* one action.                                                             *)
(***************************************************************************)
EXTENDS Integers, Sequences, FiniteSets, TLC

(***************************************************************************)
(* Bounds of the model.                                                    *)
(***************************************************************************)
\* longest array, string, list and compound entry sequence put on the wire
MaxLen == 2
\* deepest nesting of containers put on the wire
MaxDepth == 2
\* largest length or count the model follows the parser through; a larger
\* one ends the run with status "beyond"
MaxAlloc == 4

\* longest input of magic bytes given to parse_auto
MaxMagic == 3

(***************************************************************************)
(* Small helpers.                                                          *)
(***************************************************************************)
SeqsUpTo(S, n) == UNION {[1..k -> S] : k \in 0..n}

SeqsFromTo(S, m, n) == UNION {[1..k -> S] : k \in m..n}

RECURSIVE Flatten(_)
Flatten(parts) ==
    IF parts = <<>> THEN <<>> ELSE Head(parts) \o Flatten(Tail(parts))

Min(a, b) == IF a < b THEN a ELSE b

(***************************************************************************)
(* Byte-order codec.  A buffer is a sequence of bytes 0..255 (the code     *)
(* masks every char with 0xFF).  The union `conv` is modelled by its byte  *)
(* array in host order; the build takes the first branch of the #if, so    *)
(* conv.byte[0] is the last byte of the buffer (little-endian host).       *)
(* Reading conv.val and the static_cast to the node's payload type are the *)
(* operators ShortOf, IntOf, LongOf, FloatOf and DoubleOf.  Values wider   *)
(* than 32 bits are kept as a pair <<high word, low word>> of 32-bit       *)
(* two's-complement words.                                                 *)
(***************************************************************************)
b2tos16(buf) == <<buf[2], buf[1]>>

\* b4tos32 with the bytes of the buffer copied in stream order
b4tos32_noswap(buf) == buf

b4tos32(buf) == <<buf[4], buf[3], buf[2], buf[1]>>

b8tos64(buf) == <<buf[8], buf[7], buf[6], buf[5], buf[4], buf[3], buf[2], buf[1]>>

b4toflt(buf) == <<buf[4], buf[3], buf[2], buf[1]>>

b8todbl(buf) == <<buf[8], buf[7], buf[6], buf[5], buf[4], buf[3], buf[2], buf[1]>>

\* static_cast<_Byte> of the int that in.get() returns (eof is -1)
ByteOf(c) == IF c >= 128 THEN c - 256 ELSE c

\* ShortOf without the narrowing to a signed short: the union read unsigned
ShortOf_unsigned(conv) == conv[1] + 256 * conv[2]

\* static_cast<_Short>(conv.val) of a 2-byte union
ShortOf(conv) ==
    LET u == conv[1] + 256 * conv[2]
    IN  IF u >= 32768 THEN u - 65536 ELSE u

\* a 32-bit word of a union, bytes lo..lo+3 in host order, as two's complement
Word32(conv, lo) ==
    conv[lo] + 256 * conv[lo + 1] + 65536 * conv[lo + 2]
        + 16777216 * ByteOf(conv[lo + 3])

\* static_cast<_Int>(conv.val) of a 4-byte union
IntOf(conv) == Word32(conv, 1)

\* static_cast<_Long>(conv.val) of an 8-byte union
LongOf(conv) == <<Word32(conv, 5), Word32(conv, 1)>>

\* the float whose object representation is the 4-byte union (its bits)
FloatOf(conv) == Word32(conv, 1)

\* the double whose object representation is the 8-byte union (its bits)
DoubleOf(conv) == <<Word32(conv, 5), Word32(conv, 1)>>

(***************************************************************************)
(* Nodes.  A node is [tag, val]; tag is the wire tag 1..12 (variant index  *)
(* + 1).  Byte/Short/Int: the number.  Long/Double: <<high, low>>.  Float: *)
(* its bit pattern.  ByteArray/IntArray/LongArray/String/List: a sequence. *)
(* Compound: a function from keys (byte sequences) to nodes, as the        *)
(* unordered_map it is.                                                    *)
(***************************************************************************)
TagEnd == 0
TagByte == 1
TagShort == 2
TagInt == 3
TagLong == 4
TagFloat == 5
TagDouble == 6
TagByteArray == 7
TagString == 8
TagList == 9
TagCompound == 10
TagIntArray == 11
TagLongArray == 12

Node(t, v) == [tag |-> t, val |-> v]

EmptyCompound == [k \in {} |-> 0]

(***************************************************************************)
(* The wire format (big-endian throughout).  A wire tree has the shape of  *)
(* a node, except that a List is [etag, count, elems] as declared on the   *)
(* wire, a Compound is its sequence of [key, value] entries in wire order, *)
(* and tag 13 (TagBad) stands for a byte that is no tag, followed by raw   *)
(* bytes.                                                                  *)
(***************************************************************************)
TagBad == TagLongArray + 1

Enc8(v) == v % 256

Enc16(v) == <<(v \div 256) % 256, v % 256>>

Enc32(v) ==
    <<(v \div 16777216) % 256, (v \div 65536) % 256, (v \div 256) % 256, v % 256>>

Enc64(v) == Enc32(v[1]) \o Enc32(v[2])

\* the length prefix of a wire array: the one it declares, if it declares
\* one, else the number of its elements
DeclaredLen(w) == IF "declared" \in DOMAIN w THEN w.declared ELSE Len(w.val)

\* the bytes of a wire String, which is given by its bytes or as a run
StringBytes(w) ==
    IF "run" \in DOMAIN w THEN [i \in 1..w.run |-> w.fill] ELSE w.val

RECURSIVE Payload(_)
Payload(w) ==
    CASE w.tag = TagByte -> <<Enc8(w.val)>>
      [] w.tag = TagShort -> Enc16(w.val)
      [] w.tag = TagInt -> Enc32(w.val)
      [] w.tag = TagLong -> Enc64(w.val)
      [] w.tag = TagFloat -> Enc32(w.val)
      [] w.tag = TagDouble -> Enc64(w.val)
      [] w.tag = TagByteArray ->
            Enc32(DeclaredLen(w)) \o [i \in 1..Len(w.val) |-> Enc8(w.val[i])]
      [] w.tag = TagString -> Enc16(Len(StringBytes(w))) \o StringBytes(w)
      [] w.tag = TagList ->
            <<w.val.etag>> \o Enc32(w.val.count)
                \o Flatten([i \in 1..Len(w.val.elems) |-> Payload(w.val.elems[i])])
      [] w.tag = TagCompound ->
            Flatten([i \in 1..Len(w.val) |->
                        <<w.val[i].value.tag>> \o Enc16(Len(w.val[i].key))
                            \o w.val[i].key \o Payload(w.val[i].value)])
                \o <<TagEnd>>
      [] w.tag = TagIntArray ->
            Enc32(DeclaredLen(w)) \o Flatten([i \in 1..Len(w.val) |-> Enc32(w.val[i])])
      [] w.tag = TagLongArray ->
            Enc32(DeclaredLen(w)) \o Flatten([i \in 1..Len(w.val) |-> Enc64(w.val[i])])
      [] OTHER -> w.val

\* a value with its tag byte: the explicit policy's document
EncodeBare(w) == <<w.tag>> \o Payload(w)

\* a named value: one compound entry; with w a Compound, the "full" document
EncodeNamed(name, w) == <<w.tag>> \o Enc16(Len(name)) \o name \o Payload(w)

\* the entries of a Compound without the End tag
EncodeBody(w) ==
    Flatten([i \in 1..Len(w.val) |-> EncodeNamed(w.val[i].key, w.val[i].value)])

\* the keys of a wire Compound, in wire order
KeysOf(entries) == [i \in 1..Len(entries) |-> entries[i].key]

DistinctSeq(s) == \A i, j \in 1..Len(s) : s[i] = s[j] => i = j

\* index of the first entry that carries key k
FirstIndex(entries, k) ==
    CHOOSE i \in 1..Len(entries) :
        /\ entries[i].key = k
        /\ \A j \in 1..(i - 1) : entries[j].key # k

\* the tree a wire tree stands for (a repeated key keeps its first value)
RECURSIVE TreeOf(_)
TreeOf(w) ==
    CASE w.tag = TagList ->
            Node(TagList, [i \in 1..Len(w.val.elems) |-> TreeOf(w.val.elems[i])])
      [] w.tag = TagCompound ->
            Node(TagCompound,
                 [k \in {w.val[i].key : i \in 1..Len(w.val)} |->
                     TreeOf(w.val[FirstIndex(w.val, k)].value)])
      [] w.tag = TagString -> Node(TagString, StringBytes(w))
      [] w.tag \in {TagByteArray, TagIntArray, TagLongArray} -> Node(w.tag, w.val)
      [] OTHER -> w

\* no byte that is no tag, and every List declares its elements' tag and count
RECURSIVE WellFormed(_)
WellFormed(w) ==
    CASE w.tag = TagList ->
            /\ w.val.count = Len(w.val.elems)
            /\ w.val.etag \in 0..12
            /\ \A i \in 1..Len(w.val.elems) :
                  /\ w.val.elems[i].tag = w.val.etag
                  /\ WellFormed(w.val.elems[i])
      [] w.tag = TagCompound ->
            \A i \in 1..Len(w.val) : WellFormed(w.val[i].value)
      [] w.tag \in {TagBad, TagEnd} -> FALSE
      [] OTHER -> TRUE

\* every Compound of the tree has pairwise distinct keys
RECURSIVE DistinctKeys(_)
DistinctKeys(w) ==
    CASE w.tag = TagList ->
            \A i \in 1..Len(w.val.elems) : DistinctKeys(w.val.elems[i])
      [] w.tag = TagCompound ->
            /\ DistinctSeq(KeysOf(w.val))
            /\ \A i \in 1..Len(w.val) : DistinctKeys(w.val[i].value)
      [] OTHER -> TRUE

(***************************************************************************)
(* The inputs of the model: wire trees of bounded size and depth.          *)
(***************************************************************************)
ScalarTags == TagByte..TagDouble
ArrayTags == {TagByteArray, TagString, TagIntArray, TagLongArray}
LeafTags == ScalarTags \cup ArrayTags

\* sample payloads; 0x422AA000 is 42.65625f, 0x7FA00001 a signalling NaN
ScalarVals(t) ==
    CASE t = TagByte -> {42, -1}
      [] t = TagShort -> {258, -1}
      [] t = TagInt -> {66051, -2}
      [] t = TagLong -> {<<2147483647, -1>>, <<-2147483647 - 1, 0>>}
      [] t = TagFloat -> {1110089728, 2141192193}
      [] t = TagDouble -> {<<1071610514, -259784617>>, <<-1048576, 1>>}

\* payloads at the edges of the two's-complement and IEEE ranges: sign bit
\* alone, high bytes in every position, -0.0, denormal, quiet and signalling NaN
EdgeVals(t) ==
    CASE t = TagByte -> {-128, 127, 0}
      [] t = TagShort -> {-32768, 128, 32767, -256}
      [] t = TagInt -> {-2147483647 - 1, 255, 2147483647, -16777088}
      [] t = TagLong -> {<<0, -1>>, <<-1, -2147483647 - 1>>, <<255, 128>>}
      [] t = TagFloat -> {2143289345, -1, -2147483647 - 1, 1}
      [] t = TagDouble -> {<<2146959360, 1>>, <<-1, -1>>, <<-2147483647 - 1, 0>>,
                           <<2146435072, 1>>}

\* values of the elements of an array or the bytes of a string
ElemPair(t) ==
    CASE t = TagByteArray -> <<1, -128>>
      [] t = TagString -> <<97, 195>>
      [] t = TagIntArray -> <<1, -2>>
      [] t = TagLongArray -> <<<<0, 1>>, <<-1, -1>>>>

ElemVals(t) == {ElemPair(t)[1], ElemPair(t)[2]}

Leaves(t) ==
    IF t \in ScalarTags
    THEN {Node(t, v) : v \in ScalarVals(t)}
    ELSE {Node(t, v) : v \in SeqsUpTo(ElemVals(t), MaxLen)}

\* the leaves that are put inside containers: every scalar, and of every
\* array type the empty one and one of full length
FullArray(t) == [i \in 1..MaxLen |-> ElemPair(t)[2 - (i % 2)]]

PalLeaf(t) ==
    IF t \in ScalarTags
    THEN Leaves(t)
    ELSE {Node(t, <<>>), Node(t, FullArray(t))}

WList(etag, elems) ==
    Node(TagList, [etag |-> etag, count |-> Len(elems), elems |-> elems])

WCompound(entries) == Node(TagCompound, entries)

Entry(k, v) == [key |-> k, value |-> v]

Keys == {<<97>>, <<>>}

RootNames == {<<104, 105>>, <<>>}

EmptyList == WList(TagEnd, <<>>)

\* one List and one Compound of every depth, to put inside deeper containers
RECURSIVE SList(_)
SList(d) ==
    IF d <= 1
    THEN WList(TagByte, <<Node(TagByte, 42), Node(TagByte, -1)>>)
    ELSE WList(TagList, <<SList(d - 1), EmptyList>>)

RECURSIVE SCompound(_)
SCompound(d) ==
    IF d <= 1
    THEN WCompound(<<Entry(<<97>>, Node(TagShort, 258))>>)
    ELSE WCompound(<<Entry(<<98>>, SCompound(d - 1))>>)

\* the values put inside Compounds of depth d + 1
CompoundPal(d) ==
    IF d = 0
    THEN {Node(TagByte, 42), Node(TagString, <<97, 195>>),
          Node(TagIntArray, <<-2>>), Node(TagLong, <<2147483647, -1>>)}
    ELSE {Node(TagByte, 42), Node(TagString, <<97, 195>>), SList(d), SCompound(d)}

\* the Lists of depth d (exactly): every element sequence of 1..MaxLen
\* elements over the palette of its element tag
ListsAt(d) ==
    IF d = 1
    THEN {WList(t, e) : t \in LeafTags, e \in {<<>>}} \cup {EmptyList}
           \cup UNION {{WList(t, e) : e \in SeqsFromTo(PalLeaf(t), 1, MaxLen)} :
                          t \in LeafTags}
    ELSE {WList(TagList, e) :
              e \in SeqsFromTo({EmptyList, SList(d - 1)}, 1, MaxLen)}
           \cup {WList(TagCompound, e) :
                    e \in SeqsFromTo({WCompound(<<>>), SCompound(d - 1)}, 1, MaxLen)}

\* the Compounds of depth d: every entry sequence of at most MaxLen entries
\* over Keys and the palette, and every leaf of the palette under one key
CompoundsAt(d) ==
    {WCompound(e) :
        e \in SeqsUpTo({Entry(k, v) : k \in Keys, v \in CompoundPal(d - 1)}, MaxLen)}
      \cup (IF d = 1
            THEN {WCompound(<<Entry(<<97>>, v)>>) : v \in UNION {PalLeaf(t) : t \in LeafTags}}
            ELSE {})

WireTrees ==
    UNION {Leaves(t) : t \in LeafTags}
      \cup UNION {ListsAt(d) \cup CompoundsAt(d) : d \in 1..MaxDepth}

\* Compounds of three entries that repeat a key, the repeated one before or
\* after the entry under the other key
DupTrees ==
    {WCompound(<<Entry(k[1], u), Entry(k[2], v), Entry(k[3], w)>>) :
        k \in {<<<<97>>, <<97>>, <<>>>>, <<<<97>>, <<>>, <<97>>>>},
        u \in CompoundPal(MaxDepth - 1), v \in CompoundPal(MaxDepth - 1),
        w \in CompoundPal(0)}

\* the edge scalars alone and as the elements of a List
EdgeTrees ==
    UNION {{Node(t, v) : v \in EdgeVals(t)} : t \in ScalarTags}
      \cup UNION {{WList(t, <<Node(t, u), Node(t, v)>>) :
                        u \in EdgeVals(t), v \in EdgeVals(t)} : t \in ScalarTags}

\* an array without elements that declares the length n <= 0
PrefixedArray(t, n) == [tag |-> t, val |-> <<>>, declared |-> n]

NonPositive == {0, -1, -2147483647 - 1}

\* such arrays alone, before another entry of a Compound, and as the
\* elements of a List
ClampTrees ==
    UNION {{PrefixedArray(t, n),
            WCompound(<<Entry(<<97>>, PrefixedArray(t, n)),
                        Entry(<<>>, Node(TagByte, 42))>>),
            WList(t, <<PrefixedArray(t, n), PrefixedArray(t, -1)>>)} :
              t \in {TagByteArray, TagIntArray, TagLongArray}, n \in NonPositive}

\* a List header: element tag and declared count, no element after it
ListHeader(t, n) == Node(TagList, [etag |-> t, count |-> n, elems |-> <<>>])

\* a tree alone and before another entry of a Compound
AloneAndFollowed(w) ==
    {w, WCompound(<<Entry(<<97>>, w), Entry(<<>>, Node(TagByte, 42))>>)}

\* Lists that declare a negative count, under every element tag
NegativeLists ==
    UNION {AloneAndFollowed(ListHeader(t, n)) :
              t \in TagEnd..TagLongArray, n \in {-1, -2147483647 - 1}}

\* Lists that declare the count 0, under every element tag; also as the
\* elements of a List
ZeroLists ==
    UNION {AloneAndFollowed(ListHeader(t, 0)) \cup
           {WList(TagList, <<ListHeader(t, 0), ListHeader(TagEnd, 0)>>)} :
              t \in TagEnd..TagLongArray}

\* Lists of element tag End that declare a count other than 0
EndLists ==
    UNION {AloneAndFollowed(ListHeader(TagEnd, n)) : n \in {1, 2, -1}}

\* inputs that begin with the End tag
EndFirst == {Node(TagEnd, r) : r \in {<<>>, <<0>>, <<1, 42>>, <<10, 0>>}}

\* the shortest String whose length prefix has its high bit set (0x80 0x00),
\* given by its length and the byte that fills it
LongString == [tag |-> TagString, run |-> 128 * 256, fill |-> 97]

\* the trees whose every proper prefix is an input too
CutTrees ==
    UNION {PalLeaf(t) : t \in LeafTags}
      \cup UNION {{SList(d), SCompound(d)} : d \in 1..MaxDepth}
      \cup {WList(TagInt, <<Node(TagInt, -2)>>),
            WList(TagCompound, <<SCompound(1)>>),
            WCompound(<<Entry(<<97>>, SList(1)), Entry(<<>>, Node(TagByte, 42))>>)}

\* inputs with a byte that is no tag: at top level, as an entry's tag, as a
\* List's element tag; followed by nothing or by some bytes
BadRaw == {<<>>, <<0>>, <<0, 0, 0>>, <<1, 42>>}

BadTrees ==
    {Node(TagBad, r) : r \in BadRaw}
      \cup {WCompound(<<Entry(k, Node(TagBad, r))>>) : k \in Keys, r \in BadRaw}
      \cup {WCompound(<<Entry(<<97>>, Node(TagByte, 42)), Entry(<<>>, Node(TagBad, r))>>) :
               r \in BadRaw}
      \cup {Node(TagList, [etag |-> TagBad, count |-> c, elems |-> <<Node(TagBad, r)>>]) :
               c \in {0, 1, 2}, r \in BadRaw}

\* a document: how its bytes are made (form), of which wire tree, under
\* which root name
Doc(f, w, n) == [form |-> f, wire |-> w, name |-> n]

\* the bytes of a document before any truncation
FullOf(d) ==
    CASE d.form = "bare" -> EncodeBare(d.wire)
      [] d.form = "named" -> EncodeNamed(d.name, d.wire)
      [] d.form = "body" -> EncodeBody(d.wire)
      [] d.form = "bytes" -> d.wire.val

\* the documents whose returned tree the caller goes on to read through the
\* accessors and views: every leaf; two Lists side by side in a List, equal
\* or of different length, elements or element type, with leaves, Lists or
\* Compounds as their elements; two values side by side in a Compound
BytesTo(n) == [i \in 1..n |-> Node(TagByte, IF i % 2 = 1 THEN 42 ELSE -1)]

ByteLists ==
    {WList(TagByte, BytesTo(n)) : n \in 1..MaxLen}
      \cup {WList(TagByte, <<Node(TagByte, -1)>>), EmptyList}

TwinPal ==
    ByteLists
      \cup {WList(TagShort, <<Node(TagShort, -1)>>),
            WList(TagList, <<SList(1)>>), WList(TagList, <<EmptyList>>),
            WList(TagCompound, <<SCompound(1)>>)}

MapPal == {WCompound(<<>>), SCompound(1), SList(1), Node(TagByte, 42)}

ViewTrees ==
    UNION {PalLeaf(t) : t \in LeafTags}
      \cup {WList(TagList, <<x, y>>) : x \in TwinPal, y \in TwinPal}
      \cup {WCompound(<<Entry(<<97>>, x), Entry(<<>>, y)>>) :
               x \in MapPal, y \in MapPal}

ViewDocs == {Doc("bare", w, <<>>) : w \in ViewTrees}

DocsOf(W) ==
    {Doc("bare", w, <<>>) : w \in W}
      \cup {Doc("named", w, n) : w \in W, n \in RootNames}

Docs ==
    DocsOf(WireTrees \cup DupTrees \cup BadTrees \cup EdgeTrees \cup ZeroLists)
      \cup {Doc("bare", LongString, <<>>)}
      \cup ViewDocs
      \cup {Doc("bare", w, <<>>) :
               w \in ClampTrees \cup NegativeLists \cup EndLists \cup EndFirst}
      \cup {Doc("body", w, <<>>) :
               w \in {x \in WireTrees \cup DupTrees \cup BadTrees : x.tag = TagCompound}}

CutDocs == DocsOf(CutTrees)

\* the inputs given to parse_auto: every sequence of at most MaxMagic bytes
\* over the magic numbers and a tag, and some documents
MagicBytes == {31, 139, 120, 1, 156, 218, 10}

AutoDocs ==
    {Doc("bytes", Node(TagBad, b), <<>>) : b \in SeqsUpTo(MagicBytes, MaxMagic)}
      \cup DocsOf({Node(TagByte, 42), WCompound(<<>>), SList(1), SCompound(1)})

(***************************************************************************)
(* The parser's state.                                                     *)
(***************************************************************************)
VARIABLES
    policy,     \* _Policy: "implicit_compound" or "no_implicit"
    doc,        \* the document the input was made from (never read by the parser)
    input,      \* the bytes of the stream `in`
    pos,        \* index of the next byte of `in` (Len(input) + 1 at end of stream)
    ss,         \* std::stack<state>, top first
    ret,        \* std::deque<_Node_ptr>, front first
    status,     \* "running", "returned", "threw", "crashed" or "beyond";
                \* inside parse_auto "detecting", "maybe_gzip" or "maybe_zlib"
    result,     \* the node parse returned, NoNode before and otherwise
    framing,    \* what parse_auto took the input for: "raw", "gzip" or
                \* "zlib"; "undetected" before, "none" when parse is called
                \* on the stream directly
    iterU,      \* an iterator the caller of parse holds over a view of the
    iterV,      \* returned tree, and a second one; NoIter while it holds none
    viewA,      \* two views of one class the caller holds over the returned
    viewB,      \* tree; NoView while it holds none
    heap,       \* the nodes of this call: how many it has allocated, how many
                \* were destroyed, and the nodes no owner holds any more
    other,      \* a second call of parse on another stream, between two of
                \* its transitions; NoOther when there is none
    call        \* the last call the caller made on the returned tree and
                \* what came of it; NoCall before and after a step that is
                \* no such call

vars == <<policy, doc, input, pos, ss, ret, status, result, framing,
          iterU, iterV, viewA, viewB, call, heap, other>>

Policies == {"implicit_compound", "no_implicit"}

States ==
    {"S", "S1", "S2", "S3", "S4", "S5", "S6", "S7", "S8", "S9", "SA", "SB", "SC",
     "S7A", "S8A", "S9A", "SBA", "SCA", "S9B", "SAB", "NTS", "NT", "F"}

NoNode == Node(-1, 0)

(***************************************************************************)
(* Pointers.  The tree parse returned is immutable, so a pointer to one of *)
(* its nodes is the path from the root to the node: a sequence of steps,   *)
(* <<i, <<>>>> to the i-th element of a List (1-based) and <<0, k>> to the *)
(* child under key k of a Compound.  Besides the tree there are the null   *)
(* pointer and the static `defaulted` container of each view class.        *)
(***************************************************************************)
Step(i, k) == <<i, k>>

Pointer(path) == [space |-> "tree", path |-> path]

Root == Pointer(<<>>)

nullptr == [space |-> "null", path |-> <<>>]

Elem(p, i) == [p EXCEPT !.path = @ \o <<Step(i, <<>>)>>]

Child(p, k) == [p EXCEPT !.path = @ \o <<Step(0, k)>>]

RECURSIVE NodeAt(_, _)
NodeAt(n, path) ==
    IF path = <<>> THEN n
    ELSE IF n.tag = TagList
         THEN NodeAt(n.val[Head(path)[1]], Tail(path))
         ELSE NodeAt(n.val[Head(path)[2]], Tail(path))

\* static inline _List const defaulted = _List(), one of every instantiation
\* list_wrapper<_Alt, ...>, and compound_wrapper's _Compound()
defaulted(t, alt) == [space |-> "static", path |-> <<Step(alt, <<t>>)>>]

\* *p
Deref(p) ==
    CASE p.space = "tree" -> NodeAt(result, p.path)
      [] p.space = "static" ->
            IF Head(p.path)[2] = <<TagList>>
            THEN Node(TagList, <<>>)
            ELSE Node(TagCompound, EmptyCompound)
      [] OTHER -> NoNode

\* the pointers to the nodes of the tree under p
RECURSIVE PointersUnder(_)
PointersUnder(p) ==
    {p} \cup
    (CASE Deref(p).tag = TagList ->
            UNION {PointersUnder(Elem(p, i)) : i \in 1..Len(Deref(p).val)}
       [] Deref(p).tag = TagCompound ->
            UNION {PointersUnder(Child(p, k)) : k \in DOMAIN Deref(p).val}
       [] OTHER -> {})

\* std::get_if<tag - 1>(p): p, or a null pointer
get_if(t, p) == IF p # nullptr /\ Deref(p).tag = t THEN p ELSE nullptr

\* the caller holds no iterator; it has made no call
NoIter == [of |-> "none", alt |-> 0, cont |-> nullptr, it |-> 0]

\* no node allocated yet
NoHeap == [allocated |-> 0, destroyed |-> 0, lost |-> <<>>]

NoOther == [status |-> "none"]

NoView == [of |-> "none", alt |-> 0, cont |-> nullptr]

NoCall == [op |-> "none"]

(***************************************************************************)
(* The parser's tables and stream.                                         *)
(***************************************************************************)
\* _In_traits::eof()
EOF == -1

\* what the uninitialised part of a stack buffer may hold after a short read
Garbage == {0, 1, 255}

state_of_tag(tag) ==
    CASE tag = 1 -> "S1"
      [] tag = 2 -> "S2"
      [] tag = 3 -> "S3"
      [] tag = 4 -> "S4"
      [] tag = 5 -> "S5"
      [] tag = 6 -> "S6"
      [] tag = 7 -> "S7"
      [] tag = 8 -> "S8"
      [] tag = 9 -> "S9"
      [] tag = 10 -> "SA"
      [] tag = 11 -> "SB"
      [] tag = 12 -> "SC"
      [] OTHER -> "F"

(***************************************************************************)
(* The transition table `trans`: for every state a default_map from the    *)
(* lookahead to a case label; `wild` is the entry under detail::_ .        *)
(***************************************************************************)
NoCase == "none"

Map(exact, wild) == [exact |-> exact, wild |-> wild]

\* trans[S] with an entry that takes the End tag as the end of a Compound
TagCases_withEnd ==
    (0 :> "AE") @@ (1 :> "1") @@ (2 :> "2") @@ (3 :> "3") @@ (4 :> "4") @@ (5 :> "5")
      @@ (6 :> "6") @@ (7 :> "7") @@ (8 :> "8") @@ (9 :> "9") @@ (10 :> "A")
      @@ (11 :> "B") @@ (12 :> "C")

TagCases ==
    (1 :> "1") @@ (2 :> "2") @@ (3 :> "3") @@ (4 :> "4") @@ (5 :> "5") @@ (6 :> "6")
      @@ (7 :> "7") @@ (8 :> "8") @@ (9 :> "9") @@ (10 :> "A") @@ (11 :> "B")
      @@ (12 :> "C")

\* FMap with the accepting case under the wildcard instead of under eof
FMap_wildcard == Map(<<>>, "0")

\* FMap that accepts at an End byte as well as at eof
FMap_accept_End == Map((EOF :> "0") @@ (TagEnd :> "0"), NoCase)

FMap == Map((EOF :> "0"), NoCase)

\* NTSMap without the End entry of the no_implicit table
NTSMap_noEnd(pol) ==
    IF pol = "implicit_compound"
    THEN Map((TagEnd :> "AE") @@ (EOF :> "0"), "AB")
    ELSE Map(<<>>, "AB")

\* NTSMap without the eof entry of the implicit_compound table
NTSMap_noEof(pol) == Map((TagEnd :> "AE"), "AB")

NTSMap(pol) ==
    IF pol = "implicit_compound"
    THEN Map((TagEnd :> "AE") @@ (EOF :> "0"), "AB")
    ELSE Map((TagEnd :> "AE"), "AB")

trans(pol) ==
    [st \in States |->
        CASE st = "F" -> FMap
          [] st = "S" -> Map(TagCases, NoCase)
          [] st = "NTS" -> NTSMap(pol)
          [] st = "S1" -> Map(<<>>, "1A")
          [] st = "S2" -> Map(<<>>, "2A")
          [] st = "S3" -> Map(<<>>, "3A")
          [] st = "S4" -> Map(<<>>, "4A")
          [] st = "S5" -> Map(<<>>, "5A")
          [] st = "S6" -> Map(<<>>, "6A")
          [] st = "S7" -> Map(<<>>, "7A")
          [] st = "S7A" -> Map(<<>>, "7B")
          [] st = "S8" -> Map(<<>>, "8A")
          [] st = "S8A" -> Map(<<>>, "8B")
          [] st = "S9" -> Map(<<>>, "9A")
          [] st = "S9A" -> Map(<<>>, "9B")
          [] st = "S9B" -> Map(<<>>, "9C")
          [] st = "SA" -> Map(<<>>, "AA")
          [] st = "NT" -> Map(<<>>, "NT")
          [] st = "SAB" -> Map(<<>>, "AC")
          [] st = "SB" -> Map(<<>>, "BA")
          [] st = "SBA" -> Map(<<>>, "BB")
          [] st = "SC" -> Map(<<>>, "CA")
          [] st = "SCA" -> Map(<<>>, "CB")]

\* default_map::at: the entry of the key, else the wildcard's, else
\* std::unordered_map::at throws std::out_of_range
default_map_at(m, key) ==
    IF key \in DOMAIN m.exact THEN m.exact[key]
    ELSE IF m.wild # NoCase THEN m.wild
    ELSE "out_of_range"

(***************************************************************************)
(* The stream.  Once a read has hit the end of the stream the stream is no *)
(* longer good and every later peek, get and read finds nothing, which is  *)
(* what pos = Len(input) + 1 says.                                         *)
(***************************************************************************)
Remaining == Len(input) - pos + 1

\* in.peek()
Peek == IF pos <= Len(input) THEN input[pos] ELSE EOF

\* Advance as a seek to offset n from the start of the stream
Advance_seekg(n) == Min(n, Remaining) + 1

\* the position after in.get() or in.read(buf, n)
Advance(n) == pos + Min(n, Remaining)

\* the choices for the unread part of a stack buffer of n chars
Fill(n) == IF Remaining >= n THEN {0} ELSE Garbage

\* `_In_char buf[n]; in.read(buf, n)`: what was not read stays as it was
StackBuf(n, g) ==
    [i \in 1..n |-> IF pos + i - 1 <= Len(input) THEN input[pos + i - 1] ELSE g]

\* `std::make_unique<_In_char[]>(n); in.read(buf.get(), n)`: value-initialised
HeapBuf(n) ==
    [i \in 1..n |-> IF pos + i - 1 <= Len(input) THEN input[pos + i - 1] ELSE 0]

Top == Head(ss)

\* trans.at(ss.top()).at(in.peek())
Label == default_map_at(trans(policy)[Top], Peek)

At(label) == status = "running" /\ ss # <<>> /\ Label = label

Push(states) == ss' = states \o Tail(ss)

\* the run ends without a node
Stop(how) ==
    /\ status' = how
    /\ UNCHANGED <<policy, doc, framing, iterU, iterV, viewA, viewB, call, heap, other, input, pos, ss, ret, result>>

IsTag(n, t) == n.tag = t

Init ==
    /\ policy \in Policies
    /\ \/ /\ doc \in Docs
          /\ input = FullOf(doc)
          /\ status = "running"
          /\ framing = "none"
       \/ /\ doc \in AutoDocs
          /\ input = FullOf(doc)
          /\ status = "detecting"
          /\ framing = "undetected"
       \/ /\ doc \in CutDocs
          /\ input \in {SubSeq(FullOf(doc), 1, k) : k \in 0..(Len(FullOf(doc)) - 1)}
          /\ status = "running"
          /\ framing = "none"
    /\ pos = 1
    /\ ss = (IF policy = "implicit_compound" THEN <<"SA">> ELSE <<"S", "F">>)
    /\ ret = <<>>
    /\ result = NoNode
    /\ iterU = NoIter
    /\ iterV = NoIter
    /\ viewA = NoView
    /\ viewB = NoView
    /\ call = NoCall
    /\ heap = NoHeap
    /\ other = NoOther

(***************************************************************************)
(* The nodes of a call.  A node is allocated and constructed once; the     *)
(* unique_ptr that owns it destroys it, unless the node is moved into a    *)
(* container (which then owns it) or returned.                             *)
(***************************************************************************)
\* the sum of the numbers of a function over the set S of its arguments
RECURSIVE SumOver(_, _)
SumOver(f, S) ==
    IF S = {} THEN 0
    ELSE LET x == CHOOSE x \in S : TRUE
         IN  f[x] + SumOver(f, S \ {x})

\* the nodes of a tree: the node and the nodes its containers own
RECURSIVE NodeCount(_)
NodeCount(n) ==
    IF n.tag \in {TagList, TagCompound}
    THEN 1 + SumOver([x \in DOMAIN n.val |-> NodeCount(n.val[x])], DOMAIN n.val)
    ELSE 1

\* the nodes of the trees of a deque
NodesIn(deque) == SumOver([i \in DOMAIN deque |-> NodeCount(deque[i])], DOMAIN deque)

\* _A::allocate and _A::construct
allocate(h) == [h EXCEPT !.allocated = @ + 1]

\* the destructors of unique_ptrs that own n nodes between them: pop_front,
\* and the deque going out of scope
destroy(h, n) == [h EXCEPT !.destroyed = @ + n]

\* release() of a unique_ptr whose pointer no owner takes
release_only(h, node) == [h EXCEPT !.lost = Append(@, node)]

(***************************************************************************)
(* The cases of the dispatch switch.                                       *)
(***************************************************************************)
\* cases '1'..'C' and 'A': in.get(); ss.pop(); ss.push(S_T)
ConsumeTag(st) ==
    /\ pos' = Advance(1)
    /\ Push(<<st>>)
    /\ UNCHANGED <<policy, doc, framing, iterU, iterV, viewA, viewB, call, heap, other, input, ret, status, result>>

\* what a stack buffer of n chars may hold after in.read(buf, n)
Bufs(n) == {StackBuf(n, g) : g \in Fill(n)}

\* the cases that read a fixed-width payload into a stack buffer and emit
\* a node: ret.push_front(node); ss.pop()
Emit(n, nodes) ==
    /\ \E node \in nodes : ret' = <<node>> \o ret
    /\ heap' = allocate(heap)
    /\ pos' = Advance(n)
    /\ Push(<<>>)
    /\ UNCHANGED <<policy, doc, framing, iterU, iterV, viewA, viewB, call, other, input, status, result>>

\* the cases that only rearrange the control stack
Rearrange(states) ==
    /\ Push(states)
    /\ UNCHANGED <<policy, doc, framing, iterU, iterV, viewA, viewB, call, heap, other, input, pos, ret, status, result>>

Case_1 == At("1") /\ ConsumeTag("S1")

\* static_cast<_Byte>(in.get()): at end of stream get() returns eof
Case_1A ==
    /\ At("1A")
    /\ ret' = <<Node(TagByte, ByteOf(Peek))>> \o ret
    /\ heap' = allocate(heap)
    /\ pos' = Advance(1)
    /\ Push(<<>>)
    /\ UNCHANGED <<policy, doc, framing, iterU, iterV, viewA, viewB, call, other, input, status, result>>

Case_2 == At("2") /\ ConsumeTag("S2")

ShortNode(buf) == Node(TagShort, ShortOf(b2tos16(buf)))

Case_2A == At("2A") /\ Emit(2, {ShortNode(buf) : buf \in Bufs(2)})

Case_3 == At("3") /\ ConsumeTag("S3")

IntNode(buf) == Node(TagInt, IntOf(b4tos32(buf)))

Case_3A == At("3A") /\ Emit(4, {IntNode(buf) : buf \in Bufs(4)})

Case_4 == At("4") /\ ConsumeTag("S4")

LongNode(buf) == Node(TagLong, LongOf(b8tos64(buf)))

Case_4A == At("4A") /\ Emit(8, {LongNode(buf) : buf \in Bufs(8)})

Case_5 == At("5") /\ ConsumeTag("S5")

FloatNode(buf) == Node(TagFloat, FloatOf(b4toflt(buf)))

Case_5A == At("5A") /\ Emit(4, {FloatNode(buf) : buf \in Bufs(4)})

Case_6 == At("6") /\ ConsumeTag("S6")

DoubleNode(buf) == Node(TagDouble, DoubleOf(b8todbl(buf)))

Case_6A == At("6A") /\ Emit(8, {DoubleNode(buf) : buf \in Bufs(8)})

Case_7 == At("7") /\ ConsumeTag("S7")

Case_7A == At("7A") /\ Rearrange(<<"S3", "S7A">>)

\* Replace that leaves the length node under the node it makes
Replace_keeping_length(bytes, node) ==
    /\ ret' = <<node>> \o ret
    /\ heap' = allocate(heap)
    /\ pos' = Advance(bytes)
    /\ Push(<<>>)
    /\ UNCHANGED <<policy, doc, framing, iterU, iterV, viewA, viewB, call, other, input, status, result>>

\* the cases that replace the length at the front of ret by the node made of
\* the `bytes` payload bytes read into a heap buffer
Replace(bytes, node) ==
    /\ ret' = <<node>> \o Tail(ret)
    /\ heap' = destroy(allocate(heap), 1)
    /\ pos' = Advance(bytes)
    /\ Push(<<>>)
    /\ UNCHANGED <<policy, doc, framing, iterU, iterV, viewA, viewB, call, other, input, status, result>>

ByteArrayOf(len) == [i \in 1..len |-> ByteOf(HeapBuf(len)[i])]

Case_7B ==
    /\ At("7B")
    /\ IF ret = <<>> \/ ~IsTag(Head(ret), TagInt) THEN Stop("crashed")
       ELSE LET len == Head(ret).val
            IN  IF len > MaxAlloc THEN Stop("beyond")
                ELSE IF len > 0
                     THEN Replace(len, Node(TagByteArray, ByteArrayOf(len)))
                     ELSE Replace(0, Node(TagByteArray, <<>>))

Case_8 == At("8") /\ ConsumeTag("S8")

Case_8A == At("8A") /\ Rearrange(<<"S2", "S8A">>)

\* std::size_t const len = (a _Short): a negative length is a huge size, and
\* make_unique throws
Case_8B ==
    /\ At("8B")
    /\ IF ret = <<>> \/ ~IsTag(Head(ret), TagShort) THEN Stop("crashed")
       ELSE LET len == Head(ret).val
            IN  IF len < 0 THEN Stop("threw")
                ELSE IF len > MaxAlloc THEN Stop("beyond")
                ELSE Replace(len, Node(TagString, HeapBuf(len)))

Case_9 == At("9") /\ ConsumeTag("S9")

\* the count is read before the tag
Case_9A_count_first ==
    /\ At("9A")
    /\ ret' = <<Node(TagList, <<>>)>> \o ret
    /\ heap' = allocate(heap)
    /\ Push(<<"S3", "S1", "S9A">>)
    /\ UNCHANGED <<policy, doc, framing, iterU, iterV, viewA, viewB, call, other, input, pos, status, result>>

Case_9A ==
    /\ At("9A")
    /\ ret' = <<Node(TagList, <<>>)>> \o ret
    /\ heap' = allocate(heap)
    /\ Push(<<"S1", "S3", "S9A">>)
    /\ UNCHANGED <<policy, doc, framing, iterU, iterV, viewA, viewB, call, other, input, pos, status, result>>

\* pop_front that leaves the deque as it is
pop_front_kept(deque) == deque

\* std::deque::pop_front
pop_front(deque) == Tail(deque)

\* ret is count, tag, list.  reserve(count) comes first: a negative count is
\* a size beyond max_size() and reserve throws std::length_error
Case_9B ==
    /\ At("9B")
    /\ IF \/ Len(ret) < 3
          \/ ~IsTag(ret[1], TagInt)
          \/ ~IsTag(ret[2], TagByte)
          \/ ~IsTag(ret[3], TagList)
       THEN Stop("crashed")
       ELSE LET count == ret[1].val
                tag == ret[2].val
            IN  IF count < 0 THEN Stop("threw")
                ELSE IF count > MaxAlloc THEN Stop("beyond")
                ELSE /\ IF count > 0 /\ tag # TagEnd
                        THEN /\ Push(<<state_of_tag(tag), "S9B">>)
                             /\ ret' = ret
                             /\ heap' = heap
                        ELSE /\ Push(<<>>)
                             /\ ret' = pop_front(pop_front(ret))
                             /\ heap' = destroy(heap, 2)
                     /\ UNCHANGED <<policy, doc, framing, iterU, iterV, viewA, viewB, call, other, input, pos, status, result>>

\* emplace_back at the wrong end of the list
emplace_front(list, child) == <<child>> \o list

\* _List_type::emplace_back
emplace_back(list, child) == Append(list, child)

\* ret is child, count, tag, list
Case_9C ==
    /\ At("9C")
    /\ IF Len(ret) < 4 \/ ~IsTag(ret[3], TagByte) \/ ~IsTag(ret[4], TagList)
       THEN Stop("crashed")
       ELSE IF ~IsTag(ret[2], TagInt) THEN Stop("threw")
       ELSE LET count == ret[2].val - 1
                tag == ret[3].val
                list == Node(TagList, emplace_back(ret[4].val, ret[1]))
                rest == SubSeq(ret, 5, Len(ret))
            IN  /\ IF count > 0
                   THEN /\ Push(<<state_of_tag(tag), "S9B">>)
                        /\ ret' = <<Node(TagInt, count), ret[3], list>> \o rest
                        /\ heap' = heap
                   ELSE /\ Push(<<>>)
                        /\ ret' = <<list>> \o rest
                        /\ heap' = destroy(heap, 2)
                /\ UNCHANGED <<policy, doc, framing, iterU, iterV, viewA, viewB, call, other, input, pos, status, result>>

Case_A == At("A") /\ ConsumeTag("SA")

Case_AA ==
    /\ At("AA")
    /\ ret' = <<Node(TagCompound, EmptyCompound)>> \o ret
    /\ heap' = allocate(heap)
    /\ Push(<<"NTS">>)
    /\ UNCHANGED <<policy, doc, framing, iterU, iterV, viewA, viewB, call, other, input, pos, status, result>>

Case_AB == At("AB") /\ Rearrange(<<"S1", "S8", "NT">>)

\* ret is name, tag
Case_NT ==
    /\ At("NT")
    /\ IF Len(ret) < 2 \/ ~IsTag(ret[2], TagByte) THEN Stop("crashed")
       ELSE /\ Push(<<state_of_tag(ret[2].val), "SAB">>)
            /\ UNCHANGED <<policy, doc, framing, iterU, iterV, viewA, viewB, call, heap, other, input, pos, ret, status, result>>

\* try_emplace as insert_or_assign: the value of a key that is there is replaced
insert_or_assign(c, k, v) == [x \in DOMAIN c \cup {k} |-> IF x = k THEN v ELSE c[x]]

\* _Compound_type::try_emplace: nothing is inserted under a key that is there
try_emplace(c, k, v) == IF k \in DOMAIN c THEN c ELSE c @@ (k :> v)

\* ret.front().release() as an argument of try_emplace: the pointer gets an
\* owner only if a mapped value is constructed from it
released(h, c, k, v) == IF k \in DOMAIN c THEN release_only(h, v) ELSE h

\* ret is value, name, tag, compound
Case_AC ==
    /\ At("AC")
    /\ IF Len(ret) < 4 \/ ~IsTag(ret[2], TagString) \/ ~IsTag(ret[4], TagCompound)
       THEN Stop("crashed")
       ELSE /\ ret' = <<Node(TagCompound, try_emplace(ret[4].val, ret[2].val, ret[1]))>>
                         \o SubSeq(ret, 5, Len(ret))
            /\ heap' = destroy(released(heap, ret[4].val, ret[2].val, ret[1]), 2)
            /\ Push(<<"NTS">>)
            /\ UNCHANGED <<policy, doc, framing, iterU, iterV, viewA, viewB, call, other, input, pos, status, result>>

\* case 'AE' that goes back to the loop with the End tag still in the stream
\* and NTS still on the stack
Case_AE_spin == At("AE") /\ UNCHANGED vars

Case_AE ==
    /\ At("AE")
    /\ pos' = Advance(1)
    /\ Push(<<>>)
    /\ UNCHANGED <<policy, doc, framing, iterU, iterV, viewA, viewB, call, heap, other, input, ret, status, result>>

Case_B == At("B") /\ ConsumeTag("SB")

Case_BA == At("BA") /\ Rearrange(<<"S3", "SBA">>)

\* IntArrayOf with `buf.get() + i` for `buf.get() + i * 4`
IntArrayOf_stride1(count) ==
    [i \in 1..count |->
        IntOf(b4tos32(SubSeq(HeapBuf(count * 4), i, i + 3)))]

IntArrayOf(count) ==
    [i \in 1..count |->
        IntOf(b4tos32(SubSeq(HeapBuf(count * 4), 4 * i - 3, 4 * i)))]

\* case 'BB' without the test `count > 0`: the buffer of a negative length
\* cannot be allocated
Case_BB_unclamped ==
    /\ At("BB")
    /\ IF ret = <<>> \/ ~IsTag(Head(ret), TagInt) THEN Stop("crashed")
       ELSE LET count == Head(ret).val
            IN  IF count > MaxAlloc THEN Stop("beyond")
                ELSE IF count < 0 THEN Stop("threw")
                ELSE Replace(count * 4, Node(TagIntArray, IntArrayOf(count)))

Case_BB ==
    /\ At("BB")
    /\ IF ret = <<>> \/ ~IsTag(Head(ret), TagInt) THEN Stop("crashed")
       ELSE LET count == Head(ret).val
            IN  IF count > MaxAlloc THEN Stop("beyond")
                ELSE IF count > 0
                     THEN Replace(count * 4, Node(TagIntArray, IntArrayOf(count)))
                     ELSE Replace(0, Node(TagIntArray, <<>>))

Case_C == At("C") /\ ConsumeTag("SC")

Case_CA == At("CA") /\ Rearrange(<<"S3", "SCA">>)

LongArrayOf(count) ==
    [i \in 1..count |->
        LongOf(b8tos64(SubSeq(HeapBuf(count * 8), 8 * i - 7, 8 * i)))]

Case_CB ==
    /\ At("CB")
    /\ IF ret = <<>> \/ ~IsTag(Head(ret), TagInt) THEN Stop("crashed")
       ELSE LET count == Head(ret).val
            IN  IF count > MaxAlloc THEN Stop("beyond")
                ELSE IF count > 0
                     THEN Replace(count * 8, Node(TagLongArray, LongArrayOf(count)))
                     ELSE Replace(0, Node(TagLongArray, <<>>))

\* case '0': goto end; return std::move(ret.front())
Case_0 ==
    /\ At("0")
    /\ IF ret = <<>> THEN Stop("crashed")
       ELSE /\ status' = "returned"
            /\ result' = Head(ret)
            /\ heap' = destroy(heap, NodesIn(Tail(ret)))
            /\ UNCHANGED <<policy, doc, framing, iterU, iterV, viewA, viewB, call, other, input, pos, ss, ret>>

\* the table has no entry for the lookahead: std::out_of_range leaves parse
Throw_out_of_range == At("out_of_range") /\ Stop("threw")

\* ss.top() of an empty stack is undefined: the read may fault, yield a value
\* that is no state (trans.at throws), or yield a state whose case is '0'
EmptyStackOutcomes == {"crashed", "threw", "returned"}

TopOfEmptyStack ==
    /\ status = "running"
    /\ ss = <<>>
    /\ \E o \in EmptyStackOutcomes :
          /\ status' = o
          /\ result' = IF o = "returned" /\ ret # <<>> THEN Head(ret) ELSE NoNode
          /\ o = "returned" => ret # <<>>
          /\ heap' = IF o = "returned" THEN destroy(heap, NodesIn(Tail(ret))) ELSE heap
    /\ UNCHANGED <<policy, doc, framing, iterU, iterV, viewA, viewB, call, other, input, pos, ss, ret>>

(***************************************************************************)
(* parse_auto: the framing is chosen before parse is called.  parse on the *)
(* stream itself is status "running"; parse on a decompressing filter is   *)
(* not followed (status "beyond").                                         *)
(***************************************************************************)
\* in.peek() at position p
PeekAt(p) == IF p <= Len(input) THEN input[p] ELSE EOF

\* in.unget() left out: the stream stays behind the byte in.get() took
Unget_missing(p) == p

\* in.unget() from position p: the position before the last get()
Unget(p) == p - 1

\* the second bytes that parse_auto takes for a zlib header
ZlibSecond == {1, 156, 218}

\* the end of a case of the switch: the filter is installed over `in`, or
\* the case breaks and parse is called on `in`
Decide(p, isMagic, filter) ==
    /\ pos' = p
    /\ framing' = IF isMagic THEN filter ELSE "raw"
    /\ status' = IF isMagic THEN "beyond" ELSE "running"
    /\ UNCHANGED <<policy, doc, iterU, iterV, viewA, viewB, call, heap, other, input, ss, ret, result>>

\* switch (in.peek())
parse_auto_switch ==
    /\ status = "detecting"
    /\ IF Peek = 31 THEN status' = "maybe_gzip" /\ framing' = framing
       ELSE IF Peek = 120 THEN status' = "maybe_zlib" /\ framing' = framing
       ELSE status' = "running" /\ framing' = "raw"
    /\ UNCHANGED <<policy, doc, iterU, iterV, viewA, viewB, call, heap, other, input, pos, ss, ret, result>>

\* case 0x1F whose `else break` is missing: the test of case 0x78 follows
parse_auto_case_1F_fallthrough ==
    /\ status = "maybe_gzip"
    /\ LET tmp == PeekAt(Advance(1))
       IN  IF tmp = 139
           THEN Decide(Unget(Advance(1)), TRUE, "gzip")
           ELSE Decide(Unget(Advance(1)), tmp \in ZlibSecond, "zlib")

\* case 0x1F: in.get(); tmp = in.peek(); in.unget(); if (tmp == 0x8B) ...
parse_auto_case_1F ==
    /\ status = "maybe_gzip"
    /\ LET tmp == PeekAt(Advance(1))
       IN  Decide(Unget(Advance(1)), tmp = 139, "gzip")

\* case 0x78: in.get(); tmp = in.peek(); in.unget(); if (tmp == 0x01 || ...
parse_auto_case_78 ==
    /\ status = "maybe_zlib"
    /\ LET tmp == PeekAt(Advance(1))
       IN  Decide(Unget(Advance(1)), tmp \in ZlibSecond, "zlib")

Next ==
    \/ parse_auto_switch \/ parse_auto_case_1F \/ parse_auto_case_78
    \/ Case_1 \/ Case_1A \/ Case_2 \/ Case_2A \/ Case_3 \/ Case_3A
    \/ Case_4 \/ Case_4A \/ Case_5 \/ Case_5A \/ Case_6 \/ Case_6A
    \/ Case_7 \/ Case_7A \/ Case_7B \/ Case_8 \/ Case_8A \/ Case_8B
    \/ Case_9 \/ Case_9A \/ Case_9B \/ Case_9C
    \/ Case_A \/ Case_AA \/ Case_AB \/ Case_NT \/ Case_AC \/ Case_AE
    \/ Case_B \/ Case_BA \/ Case_BB \/ Case_C \/ Case_CA \/ Case_CB
    \/ Case_0 \/ Throw_out_of_range \/ TopOfEmptyStack

Spec == Init /\ [][Next]_vars

\* the loop of parse runs on: `goto loop` follows every case, and a call
\* that can make a transition makes it
LiveSpec == Spec /\ WF_vars(Next)

(***************************************************************************)
(* The map view (detail::compound_wrapper).  A view is [cont], the pointer *)
(* to the Compound it borrows.                                             *)
(***************************************************************************)
\* the accessor `compound`
compound(p) == [cont |-> get_if(TagCompound, p)]

\* compound_wrapper::size
compound_wrapper_size(view) == Cardinality(DOMAIN Deref(view.cont).val)

\* the node n with an entry k without a node added to the Compound at path
RECURSIVE InsertAt(_, _, _)
InsertAt(n, path, k) ==
    IF path = <<>>
    THEN IF n.tag = TagCompound /\ k \notin DOMAIN n.val
         THEN Node(TagCompound, n.val @@ (k :> NoNode))
         ELSE n
    ELSE LET at == IF n.tag = TagList THEN Head(path)[1] ELSE Head(path)[2]
         IN  Node(n.tag, [n.val EXCEPT ![at] = InsertAt(@, Tail(path), k)])

\* the lookup of std::unordered_map::operator[], which inserts the key it
\* does not find: the tree after the lookup
find_inserting(tree, p, k) ==
    IF p.space = "tree" THEN InsertAt(tree, p.path, k) ELSE tree

\* this->cont->find(n) on the Compound p points at: the tree after the
\* lookup.  cont is a pointer to const and find a const member.
find(tree, p, k) == tree

\* compound_wrapper::operator[] that gives an entry of the Compound when
\* find() found none
compound_wrapper_subscript_any(view, k) ==
    LET keys == DOMAIN Deref(view.cont).val
    IN  IF k \in keys THEN Child(view.cont, k)
        ELSE IF keys = {} THEN nullptr
        ELSE Child(view.cont, CHOOSE any \in keys : TRUE)

\* compound_wrapper::operator[]: the child, or nullptr
compound_wrapper_subscript(view, k) ==
    IF k \in DOMAIN Deref(view.cont).val THEN Child(view.cont, k) ELSE nullptr

\* compound_wrapper::at with the test of find() inverted
compound_wrapper_at_inverted(view, k) ==
    IF k \notin DOMAIN Deref(view.cont).val
    THEN [threw |-> FALSE, value |-> nullptr]
    ELSE [threw |-> TRUE, value |-> nullptr]

\* compound_wrapper::at: the child, or std::out_of_range
compound_wrapper_at(view, k) ==
    IF k \in DOMAIN Deref(view.cont).val
    THEN [threw |-> FALSE, value |-> Child(view.cont, k)]
    ELSE [threw |-> TRUE, value |-> nullptr]

\* compound_wrapper(): the view over the static empty Compound
compound_wrapper_default == [cont |-> defaulted(TagCompound, 0)]

\* compound_wrapper::empty
compound_wrapper_empty(view) == Deref(view.cont).val = EmptyCompound

\* an operator== that compares the entries of the two Compounds
compound_wrapper_eq_entries(x, y) == Deref(x.cont) = Deref(y.cont)

\* compound_wrapper::operator==: the same Compound object
compound_wrapper_eq(x, y) == x.cont = y.cont

\* compound_wrapper::operator!=
compound_wrapper_ne(x, y) == ~compound_wrapper_eq(x, y)

\* the order in which the unordered_map of a Compound is traversed: not
\* specified, fixed for the object
Buckets(p) ==
    LET keys == DOMAIN Deref(p).val
    IN  CHOOSE order \in [1..Cardinality(keys) -> keys] :
            \A k \in keys : \E i \in DOMAIN order : order[i] = k

(***************************************************************************)
(* The primitive accessors.  What a call gives is [how, ref]: how it ended *)
(* ("value", "threw", "crashed") and the node whose payload the result is. *)
(***************************************************************************)
GetterTags == (TagByte..TagString) \cup {TagIntArray, TagLongArray}

Value(p) == [how |-> "value", ref |-> p]

Threw == [how |-> "threw", ref |-> nullptr]

Crashed == [how |-> "crashed", ref |-> nullptr]

\* std::get that does not look at the index of the variant
std_get_unchecked(t, p) == Value(p)

\* std::get<tag - 1>(*p): the payload, or std::bad_variant_access
std_get(t, p) == IF Deref(p).tag = t THEN Value(p) ELSE Threw

\* byte, short_, ..., long_array: the object of tag t called on a node
getter(t, p) == std_get(t, p)

(***************************************************************************)
(* The list view (detail::list_wrapper<_Alt, ...>).  A view is [alt, cont]:*)
(* the index _Alt of the element's alternative (tag - 1) and the pointer   *)
(* to the List it borrows.                                                 *)
(***************************************************************************)
\* (unsigned)(-1), the _Alt of the accessor `list` without as<>
Untyped == -1

AltOf(t) == t - 1

\* variant_alternative_or_default::is_default: !(_Alt < variant_size)
is_default(alt) == alt \notin 0..AltOf(TagLongArray)

list_wrapper(alt, cont) == [alt |-> alt, cont |-> cont]

\* list.as<_Alt>(nbt)
list_as(alt, p) == list_wrapper(alt, get_if(TagList, p))

\* list(nbt)
list(p) == list_wrapper(Untyped, get_if(TagList, p))

\* list_wrapper(): the view over the static empty List of the instantiation
list_wrapper_default(alt) == list_wrapper(alt, defaulted(TagList, alt))

list_wrapper_size(view) == Len(Deref(view.cont).val)

list_wrapper_empty(view) == Deref(view.cont).val = <<>>

\* an iterator is the position `it` in the container `cont` (1 is cbegin())
\* and the _Alt of the view class it belongs to
Iterator(of, alt, cont, it) == [of |-> of, alt |-> alt, cont |-> cont, it |-> it]

list_wrapper_begin(view) == Iterator("list", view.alt, view.cont, 1)

list_wrapper_end(view) ==
    Iterator("list", view.alt, view.cont, list_wrapper_size(view) + 1)

compound_wrapper_begin(view) == Iterator("map", 0, view.cont, 1)

compound_wrapper_end(view) ==
    Iterator("map", 0, view.cont, compound_wrapper_size(view) + 1)

\* an operator++ that leaves `it` where it is
iterator_incr_stuck(i) == i

\* iterator::operator++
iterator_incr(i) == [i EXCEPT !.it = @ + 1]

\* iterator::operator== of either class
iterator_eq(i, j) == i.cont = j.cont /\ i.it = j.it

\* list_wrapper::iterator::operator->: the element, or what get_if gives
list_iterator_arrow(i) ==
    LET variant == Elem(i.cont, i.it)
    IN  IF i.alt = AltOf(TagList) THEN variant
        ELSE IF is_default(i.alt) THEN variant
        ELSE get_if(i.alt + 1, variant)

\* `*p` of a null pointer, and of a position that is no element, is
\* undefined: the access faults, or the caller is left with a reference to
\* nothing
NullDeref == {Crashed, Value(nullptr)}

\* the iterator is at an element of its container
Dereferenceable(i) ==
    /\ i.cont # nullptr
    /\ i.it \in 1..(IF i.of = "list" THEN Len(Deref(i.cont).val)
                     ELSE Cardinality(DOMAIN Deref(i.cont).val))

\* list_wrapper::iterator::operator*: every outcome it may have
list_iterator_deref(i) ==
    IF ~Dereferenceable(i) THEN NullDeref
    ELSE IF i.alt = AltOf(TagList) THEN {Value(Elem(i.cont, i.it))}
    ELSE IF list_iterator_arrow(i) = nullptr THEN NullDeref
    ELSE {Value(list_iterator_arrow(i))}

\* compound_wrapper::iterator::operator*: the pair (key, child)
compound_iterator_deref(i) ==
    IF ~Dereferenceable(i) THEN NullDeref
    ELSE LET k == Buckets(i.cont)[i.it]
         IN  {[how |-> "value", ref |-> Child(i.cont, k), key |-> k]}

list_wrapper_front(view) == list_iterator_deref(list_wrapper_begin(view))

list_wrapper_back(view) ==
    list_iterator_deref(Iterator("list", view.alt, view.cont, list_wrapper_size(view)))

\* list_wrapper::operator[]
list_wrapper_subscript(view, n) ==
    list_iterator_deref(Iterator("list", view.alt, view.cont, n + 1))

\* list_wrapper::at whose test is n > size()
list_wrapper_at_off_by_one(view, n) ==
    IF n > list_wrapper_size(view) THEN {Threw}
    ELSE list_wrapper_subscript(view, n)

\* list_wrapper::at: the element, or std::out_of_range
list_wrapper_at(view, n) ==
    IF n >= list_wrapper_size(view) THEN {Threw}
    ELSE list_wrapper_subscript(view, n)

\* the answer of a comparison
Answer(bool) == [how |-> "value", val |-> bool]

\* operator== of two vectors, or two unordered_maps, of unique_ptr: the
\* same pointers in the same places
SamePointers(p, q) ==
    IF Deref(p).tag = TagList
    THEN /\ Len(Deref(p).val) = Len(Deref(q).val)
         /\ \A i \in 1..Len(Deref(p).val) : Elem(p, i) = Elem(q, i)
    ELSE /\ DOMAIN Deref(p).val = DOMAIN Deref(q).val
         /\ \A k \in DOMAIN Deref(p).val : Child(p, k) = Child(q, k)

\* operator== of two alternatives of the same index
PayloadEq(p, q) ==
    IF Deref(p).tag \in {TagList, TagCompound}
    THEN SamePointers(p, q)
    ELSE Deref(p).val = Deref(q).val

\* operator== of std::variant
VariantEq(p, q) == Deref(p).tag = Deref(q).tag /\ PayloadEq(p, q)

\* *first1 == *first2 for what the two iterators' operator* gave: pointers
\* under _Alt 8, variants without _Alt, payloads otherwise
ElemEq(x, y, p, q) ==
    IF x.alt = AltOf(TagList) THEN p = q
    ELSE IF is_default(x.alt) THEN VariantEq(p, q)
    ELSE IF x.alt = y.alt THEN PayloadEq(p, q)
    ELSE Deref(p).val = Deref(q).val

\* the view classes whose elements operator== can compare: the same _Alt,
\* or two integer element types
Comparable(x, y) ==
    \/ x.alt = y.alt
    \/ {x.alt, y.alt} \subseteq {AltOf(TagByte), AltOf(TagShort), AltOf(TagInt)}

\* std::equal(first1, last1, first2, last2) over input iterators, from
\* position k on
RECURSIVE std_equal(_, _, _)
std_equal(x, y, k) ==
    IF k > list_wrapper_size(x) \/ k > list_wrapper_size(y)
    THEN {Answer(k > list_wrapper_size(x) /\ k > list_wrapper_size(y))}
    ELSE LET dx == list_iterator_deref(Iterator("list", x.alt, x.cont, k))
             dy == list_iterator_deref(Iterator("list", y.alt, y.cont, k))
         IN  IF Crashed \in dx \/ Crashed \in dy
             THEN {[how |-> "crashed", val |-> FALSE], Answer(TRUE), Answer(FALSE)}
             ELSE IF \A ex \in dx, ey \in dy : ElemEq(x, y, ex.ref, ey.ref)
                  THEN std_equal(x, y, k + 1)
                  ELSE {Answer(FALSE)}

\* list_wrapper::operator==
list_wrapper_eq(x, y) ==
    IF x.cont = y.cont THEN {Answer(TRUE)} ELSE std_equal(x, y, 1)

\* list_wrapper::operator!=
list_wrapper_ne(x, y) ==
    {IF o.how = "value" THEN Answer(~o.val) ELSE o : o \in list_wrapper_eq(x, y)}

\* list_wrapper(list_wrapper const &)
list_wrapper_copy(view) == list_wrapper(view.alt, view.cont)

\* compound_wrapper(compound_wrapper const &)
compound_wrapper_copy(view) == [cont |-> view.cont]

(***************************************************************************)
(* The caller.  After parse has returned a tree the caller reads it        *)
(* through the accessors and views.  A call that only reads is recorded in *)
(* `call` with what it was given and what came of it; iterators are the    *)
(* objects the caller keeps and moves.                                     *)
(***************************************************************************)
\* the nodes parse allocates for a value: the node, the length node of a
\* String or array, the tag and count nodes of a List, the tag, name length
\* and name nodes of every entry of a Compound, and the nodes of the children
RECURSIVE Allocations(_)
Allocations(w) ==
    IF w.tag = TagList
    THEN 3 + SumOver([i \in DOMAIN w.val.elems |-> Allocations(w.val.elems[i])],
                     DOMAIN w.val.elems)
    ELSE IF w.tag = TagCompound
    THEN 1 + SumOver([i \in DOMAIN w.val |-> 3 + Allocations(w.val[i].value)],
                     DOMAIN w.val)
    ELSE IF w.tag \in ArrayTags \cup {TagString} THEN 2
    ELSE 1

\* the nodes of the call that returned the tree of w: all that are not in the
\* tree were destroyed
HeapAfter(w) ==
    [allocated |-> Allocations(w),
     destroyed |-> Allocations(w) - NodeCount(TreeOf(w)),
     lost |-> <<>>]

\* the state in which parse, called on the document under the explicit
\* policy, has returned its tree
ViewInit ==
    /\ policy = "no_implicit"
    /\ doc \in ViewDocs
    /\ input = FullOf(doc)
    /\ pos = Len(input) + 1
    /\ ss = <<"F">>
    /\ ret = <<TreeOf(doc.wire)>>
    /\ status = "returned"
    /\ result = TreeOf(doc.wire)
    /\ framing = "none"
    /\ iterU = NoIter
    /\ iterV = NoIter
    /\ viewA = NoView
    /\ viewB = NoView
    /\ call = NoCall
    /\ heap = HeapAfter(doc.wire)
    /\ other = NoOther

\* what the caller passes: pointers to the nodes of the tree, the element
\* types it asks list views for, indices and keys
Nodes == PointersUnder(Root)

ViewAlts ==
    {Untyped, AltOf(TagByte), AltOf(TagShort), AltOf(TagList), AltOf(TagCompound)}

ListViews ==
    {list_as(alt, p) : alt \in ViewAlts, p \in Nodes}
      \cup {list_wrapper_default(alt) : alt \in ViewAlts}

MapViews == {compound(p) : p \in Nodes} \cup {compound_wrapper_default}

Indices == 0..(MaxLen + 1)

ViewKeys == Keys \cup {<<98>>}

\* a member function called through the null `cont` of a view dereferences
\* a null pointer
Through(view, outs) == IF view.cont = nullptr THEN NullDeref ELSE outs

\* for (it = first; it != last; ++it) ++n, given up after `fuel` rounds
RECURSIVE Steps(_, _, _)
Steps(first, last, fuel) ==
    IF iterator_eq(first, last) \/ fuel = 0 THEN 0
    ELSE 1 + Steps(iterator_incr(first), last, fuel - 1)

\* what an accessor that makes a view gives
Made(view) == [how |-> "view", view |-> view]

\* the caller has the tree and no call under way
Idle == status = "returned" /\ call = NoCall

\* one call at a time: the caller looks at what came of a call and lets go
\* of it before it makes the next
Record(c) ==
    /\ status = "returned"
    /\ call = NoCall
    /\ call' = c
    /\ UNCHANGED <<policy, doc, input, pos, ss, ret, status, result, framing,
                   iterU, iterV, viewA, viewB, heap, other>>

\* a call that looks a key up in the Compound of a map view
RecordLookup(c) ==
    /\ status = "returned"
    /\ call = NoCall
    /\ call' = c
    /\ result' = find(result, c.view.cont, c.key)
    /\ UNCHANGED <<policy, doc, input, pos, ss, ret, status, framing,
                   iterU, iterV, viewA, viewB, heap, other>>

Forget ==
    /\ status = "returned"
    /\ call # NoCall
    /\ call' = NoCall
    /\ UNCHANGED <<policy, doc, input, pos, ss, ret, status, result, framing,
                   iterU, iterV, viewA, viewB, heap, other>>

Call_getter ==
    /\ Idle
    /\ \E t \in GetterTags, p \in Nodes :
        Record([op |-> "getter", tag |-> t, node |-> p, out |-> getter(t, p)])

Call_list ==
    /\ Idle
    /\ \E alt \in ViewAlts, p \in Nodes :
        Record([op |-> "list", node |-> p,
                out |-> Made(IF alt = Untyped THEN list(p) ELSE list_as(alt, p))])

Call_compound ==
    /\ Idle
    /\ \E p \in Nodes :
        Record([op |-> "compound", node |-> p, out |-> Made(compound(p))])

Call_list_size ==
    /\ Idle
    /\ \E view \in ListViews :
      \E o \in Through(view,
                {Answer([size |-> list_wrapper_size(view),
                         empty |-> list_wrapper_empty(view),
                         steps |-> Steps(list_wrapper_begin(view),
                                         list_wrapper_end(view),
                                         list_wrapper_size(view) + 1)])}) :
          Record([op |-> "list_size", view |-> view, out |-> o])

Call_list_element ==
    /\ Idle
    /\ \E view \in ListViews, fn \in {"subscript", "front", "back"}, n \in Indices :
      /\ fn # "subscript" => n = 0
      /\ \E o \in Through(view,
                    CASE fn = "subscript" -> list_wrapper_subscript(view, n)
                      [] fn = "front" -> list_wrapper_front(view)
                      [] fn = "back" -> list_wrapper_back(view)) :
            Record([op |-> fn, view |-> view, n |-> n, out |-> o])

Call_list_at ==
    /\ Idle
    /\ \E view \in ListViews, n \in Indices :
      \E o \in Through(view, list_wrapper_at(view, n)) :
          Record([op |-> "at", view |-> view, n |-> n, out |-> o])

Call_list_eq ==
    /\ Idle
    /\ \E x \in ListViews, y \in ListViews :
      /\ Comparable(x, y)
      /\ x.cont # nullptr /\ y.cont # nullptr
      /\ \E o \in list_wrapper_eq(x, y) :
            Record([op |-> "list_eq", x |-> x, y |-> y, out |-> o])

Call_list_ne ==
    /\ Idle
    /\ \E x \in ListViews, y \in ListViews :
      /\ Comparable(x, y)
      /\ x.cont # nullptr /\ y.cont # nullptr
      /\ \E o \in list_wrapper_ne(x, y) :
            Record([op |-> "list_ne", x |-> x, y |-> y, out |-> o])

Call_map_size ==
    /\ Idle
    /\ \E view \in MapViews :
      \E o \in Through(view,
                {Answer([size |-> compound_wrapper_size(view),
                         empty |-> compound_wrapper_empty(view),
                         steps |-> Steps(compound_wrapper_begin(view),
                                         compound_wrapper_end(view),
                                         compound_wrapper_size(view) + 1)])}) :
          Record([op |-> "map_size", view |-> view, out |-> o])

Call_map_at ==
    /\ Idle
    /\ \E view \in MapViews, k \in ViewKeys :
      /\ view.cont # nullptr
      /\ RecordLookup([op |-> "map_at", view |-> view, key |-> k,
                 out |-> compound_wrapper_at(view, k)])

Call_map_subscript ==
    /\ Idle
    /\ \E view \in MapViews, k \in ViewKeys :
      /\ view.cont # nullptr
      /\ RecordLookup([op |-> "map_subscript", view |-> view, key |-> k,
                 out |-> compound_wrapper_subscript(view, k)])

Call_map_eq ==
    /\ Idle
    /\ \E x \in MapViews, y \in MapViews :
        Record([op |-> "map_eq", x |-> x, y |-> y,
                out |-> compound_wrapper_eq(x, y)])

Call_map_ne ==
    /\ Idle
    /\ \E x \in MapViews, y \in MapViews :
        Record([op |-> "map_ne", x |-> x, y |-> y,
                out |-> compound_wrapper_ne(x, y)])

ViewNext ==
    \/ Call_getter \/ Call_list \/ Call_compound
    \/ Call_list_size \/ Call_list_element \/ Call_list_at
    \/ Call_list_eq \/ Call_list_ne
    \/ Call_map_size \/ Call_map_at \/ Call_map_subscript
    \/ Call_map_eq \/ Call_map_ne
    \/ Forget

ViewSpec == ViewInit /\ [][ViewNext]_vars

\* the trees the caller iterates over: Lists of leaves, Lists and Compounds,
\* a Compound, and a leaf
IterTrees ==
    {SList(1), WList(TagList, <<SList(1), EmptyList>>),
     WList(TagList, <<WList(TagCompound, <<SCompound(1)>>), EmptyList>>),
     WCompound(<<Entry(<<97>>, SList(1)), Entry(<<>>, SCompound(1))>>),
     WCompound(<<Entry(<<97>>, Node(TagByte, 42)), Entry(<<>>, WCompound(<<>>))>>),
     Node(TagByte, 42)}

IterInit == ViewInit /\ doc.wire \in IterTrees

\* the iterators the caller keeps
Keep(u, v) ==
    /\ Idle
    /\ iterU' = u
    /\ iterV' = v
    /\ call' = NoCall
    /\ UNCHANGED <<policy, doc, input, pos, ss, ret, status, result, framing,
                   viewA, viewB, heap, other>>

AtEnd(i) ==
    i.it = 1 + (IF i.of = "list" THEN Len(Deref(i.cont).val)
                ELSE Cardinality(DOMAIN Deref(i.cont).val))

\* u = view.begin()
Begin_U ==
    /\ Idle
    /\ \/ \E view \in ListViews :
             view.cont # nullptr /\ Keep(list_wrapper_begin(view), iterV)
       \/ \E view \in MapViews :
             view.cont # nullptr /\ Keep(compound_wrapper_begin(view), iterV)

\* v = u
Copy_V == iterU # NoIter /\ Keep(iterU, iterU)

\* ++u
Incr_U == iterU # NoIter /\ ~AtEnd(iterU) /\ Keep(iterator_incr(iterU), iterV)

\* ++v where u and v are one position: a single-pass iterator
Incr_V_single_pass ==
    iterV # NoIter /\ ~AtEnd(iterV) /\ Keep(iterator_incr(iterV), iterator_incr(iterV))

\* ++v
Incr_V == iterV # NoIter /\ ~AtEnd(iterV) /\ Keep(iterU, iterator_incr(iterV))

iterator_deref(i) ==
    IF i.of = "list" THEN list_iterator_deref(i) ELSE compound_iterator_deref(i)

\* *u
Deref_U ==
    /\ Idle
    /\ iterU # NoIter
    /\ \E o \in iterator_deref(iterU) :
          Record([op |-> "deref", of |-> "u", out |-> o])

\* *v
Deref_V ==
    /\ Idle
    /\ iterV # NoIter
    /\ \E o \in iterator_deref(iterV) :
          Record([op |-> "deref", of |-> "v", out |-> o])

\* u == v
Compare_UV ==
    /\ Idle
    /\ iterU # NoIter /\ iterV # NoIter
    /\ Record([op |-> "iter_eq", of |-> "uv",
               out |-> Answer(iterator_eq(iterU, iterV))])

IterNext ==
    \/ Begin_U \/ Copy_V \/ Incr_U \/ Incr_V
    \/ Deref_U \/ Deref_V \/ Compare_UV
    \/ Forget

IterSpec == IterInit /\ [][IterNext]_vars

(***************************************************************************)
(* The views the caller keeps.  A view object is its class and its `cont`; *)
(* a and b are two objects of one class (and one _Alt).                    *)
(***************************************************************************)
Handle(of, alt, cont) == [of |-> of, alt |-> alt, cont |-> cont]

\* list_wrapper::operator=: this->cont = a.cont
list_wrapper_assign(this, a) == [this EXCEPT !.cont = a.cont]

\* swap that writes a.cont after this->cont was overwritten, without tmp
list_wrapper_swap_no_tmp(this, a) ==
    <<[this EXCEPT !.cont = a.cont], [a EXCEPT !.cont = a.cont]>>

\* list_wrapper::swap(list_wrapper &): the two objects after the call
list_wrapper_swap(this, a) ==
    <<[this EXCEPT !.cont = a.cont], [a EXCEPT !.cont = this.cont]>>

\* compound_wrapper::operator=
compound_wrapper_assign(this, a) == [this EXCEPT !.cont = a.cont]

\* compound_wrapper::swap(compound_wrapper &)
compound_wrapper_swap(this, a) ==
    <<[this EXCEPT !.cont = a.cont], [a EXCEPT !.cont = this.cont]>>

wrapper_assign(this, a) ==
    IF this.of = "list" THEN list_wrapper_assign(this, a)
    ELSE compound_wrapper_assign(this, a)

wrapper_swap(this, a) ==
    IF this.of = "list" THEN list_wrapper_swap(this, a)
    ELSE compound_wrapper_swap(this, a)

\* the view objects the caller can make
Handles ==
    {Handle("list", v.alt, v.cont) : v \in ListViews}
      \cup {Handle("map", 0, v.cont) : v \in MapViews}

\* the caller's two objects and what it did last
Hold(a, b, c) ==
    /\ Idle
    /\ viewA' = a
    /\ viewB' = b
    /\ call' = c
    /\ UNCHANGED <<policy, doc, input, pos, ss, ret, status, result, framing,
                   iterU, iterV, heap, other>>

HandleInit == IterInit

\* auto a = list(n), list.as<_Alt>(n), compound(n), or a default view
Make_A ==
    /\ Idle
    /\ \E h \in Handles : Hold(h, NoView, NoCall)

\* a second object of the class of a
Make_B ==
    /\ Idle
    /\ viewA # NoView
    /\ \E h \in Handles :
          /\ h.of = viewA.of /\ h.alt = viewA.alt
          /\ Hold(viewA, h, NoCall)

\* list_wrapper b(a), compound_wrapper b(a)
Copy_B ==
    /\ Idle
    /\ viewA # NoView
    /\ Hold(viewA, Handle(viewA.of, viewA.alt, viewA.cont),
            [op |-> "copy", a |-> viewA, b |-> viewB])

\* a = b
Assign_A ==
    /\ Idle
    /\ viewA # NoView /\ viewB # NoView
    /\ Hold(wrapper_assign(viewA, viewB), viewB,
            [op |-> "assign", a |-> viewA, b |-> viewB])

\* a.swap(b)
Swap_member ==
    /\ Idle
    /\ viewA # NoView /\ viewB # NoView
    /\ Hold(wrapper_swap(viewA, viewB)[1], wrapper_swap(viewA, viewB)[2],
            [op |-> "swap", a |-> viewA, b |-> viewB])

\* swap(a, b): return a.swap(b)
Swap_friend ==
    /\ Idle
    /\ viewA # NoView /\ viewB # NoView
    /\ Hold(wrapper_swap(viewA, viewB)[1], wrapper_swap(viewA, viewB)[2],
            [op |-> "swap_friend", a |-> viewA, b |-> viewB])

HandleNext ==
    \/ Make_A \/ Make_B \/ Copy_B \/ Assign_A \/ Swap_member \/ Swap_friend
    \/ Forget

HandleSpec == HandleInit /\ [][HandleNext]_vars

(***************************************************************************)
(* Two calls of parse on two streams.  Everything a call works on is local *)
(* to it: the table `trans`, `ret`, `ss` and the stream it was given.  The *)
(* call that is not making a transition is kept in `other`; Switch lets    *)
(* the other call make the next transition.                                *)
(***************************************************************************)
\* a call between two of its transitions
Suspended ==
    [policy |-> policy, doc |-> doc, input |-> input, pos |-> pos, ss |-> ss,
     ret |-> ret, status |-> status, result |-> result, framing |-> framing,
     heap |-> heap]

\* a call that has not made a transition yet
Started(pol, d, auto) ==
    [policy |-> pol, doc |-> d, input |-> FullOf(d), pos |-> 1,
     ss |-> (IF pol = "implicit_compound" THEN <<"SA">> ELSE <<"S", "F">>),
     ret |-> <<>>, status |-> (IF auto THEN "detecting" ELSE "running"),
     result |-> NoNode, framing |-> (IF auto THEN "undetected" ELSE "none"),
     heap |-> NoHeap]

Switch ==
    /\ other # NoOther
    /\ status # "returned" \/ call = NoCall
    /\ policy' = other.policy
    /\ doc' = other.doc
    /\ input' = other.input
    /\ pos' = other.pos
    /\ ss' = other.ss
    /\ ret' = other.ret
    /\ status' = other.status
    /\ result' = other.result
    /\ framing' = other.framing
    /\ heap' = other.heap
    /\ other' = Suspended
    /\ UNCHANGED <<iterU, iterV, viewA, viewB, call>>

\* the streams of the two calls: one value of every tag, a List of Lists, a
\* Compound in a Compound, a Compound with a repeated key, a Compound body,
\* an input that begins with End, a Short cut after its first byte, and
\* inputs that begin like a gzip or zlib header
LeafOf(t) == CHOOSE n \in PalLeaf(t) : t \in ScalarTags \/ n.val # <<>>

PairWire ==
    {LeafOf(t) : t \in LeafTags}
      \cup {SList(1), SList(2), SCompound(2),
            WCompound(<<Entry(<<97>>, Node(TagByte, 42)),
                        Entry(<<97>>, Node(TagByte, -1))>>)}

CutShort == Doc("bytes", Node(TagBad, <<2, 1>>), <<>>)

PairDocs ==
    {Doc("bare", w, <<>>) : w \in PairWire}
      \cup {Doc("body", SCompound(1), <<>>), Doc("bare", Node(TagEnd, <<>>), <<>>),
            CutShort}

PairAuto == {Doc("bytes", Node(TagBad, b), <<>>) : b \in {<<31, 139>>, <<120, 1>>}}

SecondDocs == {CutShort, Doc("bare", SList(1), <<>>), Doc("bare", Node(TagByte, 42), <<>>)}

\* the call c is the one that makes the next transition
Resume(c) ==
    /\ policy = c.policy
    /\ doc = c.doc
    /\ input = c.input
    /\ pos = c.pos
    /\ ss = c.ss
    /\ ret = c.ret
    /\ status = c.status
    /\ result = c.result
    /\ framing = c.framing
    /\ heap = c.heap

PairInit ==
    /\ \E c \in {Started(pol, d, FALSE) : pol \in Policies, d \in PairDocs}
                \cup {Started(pol, d, TRUE) : pol \in Policies, d \in PairAuto} :
          Resume(c)
    /\ other \in {Started(pol, d, FALSE) : pol \in Policies, d \in SecondDocs}
    /\ iterU = NoIter
    /\ iterV = NoIter
    /\ viewA = NoView
    /\ viewB = NoView
    /\ call = NoCall

PairNext == Next \/ Switch

PairSpec == PairInit /\ [][PairNext]_vars

(***************************************************************************)
(* One value.  The loop is followed from the point where the payload state *)
(* of a value has just been pushed, by case '1'..'C' for the root, by case *)
(* '9B' for the one element of a List, by case 'NT' for the one entry of a *)
(* Compound, up to the point where that stack level is popped.             *)
(***************************************************************************)
\* the well-formed values
Values == {w \in WireTrees \cup DupTrees : WellFormed(w)}

\* where the value stands: as the root, as the one element of a List, as
\* the one entry of a Compound
Places == {"root", "element", "entry"}

\* the document around the value w
Around(place, w) ==
    CASE place = "root" -> w
      [] place = "element" -> WList(w.tag, <<w>>)
      [] place = "entry" -> WCompound(<<Entry(<<97>>, w)>>)

\* the whole input, under the policy pol
InputAround(pol, place, w) ==
    IF pol = "implicit_compound"
    THEN EncodeBody(Around(place, w))
    ELSE EncodeBare(Around(place, w))

\* the bytes of the input that come before the payload of the value
Before(pol, place) ==
    (CASE place = "root" -> 1
       [] place = "element" -> 6
       [] place = "entry" -> 5)
    - (IF pol = "implicit_compound" THEN 1 ELSE 0)

\* the control states under the payload state of the value
Below(pol, place) ==
    (CASE place = "root" -> <<>>
       [] place = "element" -> <<"S9B">>
       [] place = "entry" -> <<"SAB">>)
    \o (IF pol = "implicit_compound" THEN <<>> ELSE <<"F">>)

\* the deque when the payload state of the value is pushed
Beneath(place, w) ==
    CASE place = "root" -> <<>>
      [] place = "element" ->
            <<Node(TagInt, 1), Node(TagByte, w.tag), Node(TagList, <<>>)>>
      [] place = "entry" ->
            <<Node(TagString, <<97>>), Node(TagByte, w.tag),
              Node(TagCompound, EmptyCompound)>>

\* the nodes allocated and destroyed up to there: the String replaced the
\* Short of its length
HeapBeneath(place) ==
    CASE place = "root" -> NoHeap
      [] place = "element" -> [allocated |-> 3, destroyed |-> 0, lost |-> <<>>]
      [] place = "entry" -> [allocated |-> 4, destroyed |-> 1, lost |-> <<>>]

ValueInit ==
    /\ policy \in Policies
    /\ \E place \in Places, w \in Values :
          /\ policy = "implicit_compound" => place = "entry"
          /\ doc = Doc(place, w, <<>>)
          /\ input = InputAround(policy, place, w)
          /\ pos = Before(policy, place) + 1
          /\ ss = <<state_of_tag(w.tag)>> \o Below(policy, place)
          /\ ret = Beneath(place, w)
          /\ heap = HeapBeneath(place)
    /\ status = "running"
    /\ framing = "none"
    /\ result = NoNode
    /\ iterU = NoIter
    /\ iterV = NoIter
    /\ viewA = NoView
    /\ viewB = NoView
    /\ call = NoCall
    /\ other = NoOther

\* the stack levels above the ones the value found
Level == Len(ss) - Len(Below(policy, doc.form))

\* the labels of the cases of a payload
PayloadCases ==
    {"1A", "2A", "3A", "4A", "5A", "6A", "7A", "7B", "8A", "8B", "9A", "9B", "9C",
     "AA", "AB", "NT", "AC", "AE", "BA", "BB", "CA", "CB"}

\* the cases of a payload, while the level of the value is on the stack
ValueNext ==
    \/ Level > 0 /\ Case_1A
    \/ Level > 0 /\ Case_2A
    \/ Level > 0 /\ Case_3A
    \/ Level > 0 /\ Case_4A
    \/ Level > 0 /\ Case_5A
    \/ Level > 0 /\ Case_6A
    \/ Level > 0 /\ Case_7A
    \/ Level > 0 /\ Case_7B
    \/ Level > 0 /\ Case_8A
    \/ Level > 0 /\ Case_8B
    \/ Level > 0 /\ Case_9A
    \/ Level > 0 /\ Case_9B
    \/ Level > 0 /\ Case_9C
    \/ Level > 0 /\ Case_AA
    \/ Level > 0 /\ Case_AB
    \/ Level > 0 /\ Case_NT
    \/ Level > 0 /\ Case_AC
    \/ Level > 0 /\ Case_AE
    \/ Level > 0 /\ Case_BA
    \/ Level > 0 /\ Case_BB
    \/ Level > 0 /\ Case_CA
    \/ Level > 0 /\ Case_CB

ValueSpec == ValueInit /\ [][ValueNext]_vars

(***************************************************************************)
(* The byte length of an array.  Cases 'BB' and 'CB' compute               *)
(* `auto const len = count * 4` (or 8) on the _Int that case '3A' read:    *)
(* an int product.  The loop is taken up where SBA or SCA is on top with   *)
(* the count at the front of ret, and followed to the computed length.     *)
(***************************************************************************)
\* n * k for 0 <= n < 2^31 and small k without the width of an int, as the
\* two digits <<high, low>> of base 2^16
Wide(n, k) ==
    LET low == (n % 65536) * k
    IN  <<(n \div 65536) * k + low \div 65536, low % 65536>>

\* the digits of a length that is not negative
WideOf(len) == <<len \div 65536, len % 65536>>

\* the product is an int
Fits(wide) == wide[1] < 32768

\* the low 32 bits of the product, as a signed int
Narrow(wide) ==
    LET high == wide[1] % 65536
    IN  (IF high >= 32768 THEN high - 65536 ELSE high) * 65536 + wide[2]

\* count * k in int arithmetic.  Signed overflow is undefined: the build
\* keeps the low 32 bits, or traps
times(count, k) ==
    IF Fits(Wide(count, k))
    THEN {[how |-> "value", len |-> count * k]}
    ELSE {[how |-> "value", len |-> Narrow(Wide(count, k))], [how |-> "trapped"]}

\* the counts an array declares: small ones and the ones around the powers
\* of two where a product leaves the int
Counts ==
    (1..16)
      \cup UNION {{2^e - 1, 2^e, 2^e + 1} : e \in 26..30}
      \cup {1431655765, 2147483647}

\* the tag, the count and nothing else: the length is computed before a
\* payload byte is read
LenInit ==
    /\ policy = "no_implicit"
    /\ \E t \in {TagIntArray, TagLongArray}, n \in Counts :
          /\ doc = Doc("bare", PrefixedArray(t, n), <<>>)
          /\ ss = <<(IF t = TagIntArray THEN "SBA" ELSE "SCA"), "F">>
          /\ ret = <<Node(TagInt, n)>>
    /\ input = FullOf(doc)
    /\ pos = 6
    /\ heap = allocate(NoHeap)
    /\ status = "running"
    /\ framing = "none"
    /\ result = NoNode
    /\ iterU = NoIter
    /\ iterV = NoIter
    /\ viewA = NoView
    /\ viewB = NoView
    /\ call = NoCall
    /\ other = NoOther

\* `auto const len = count * k` of case 'BB' (k = 4) and case 'CB' (k = 8)
Length(label, k) ==
    /\ At(label)
    /\ call = NoCall
    /\ ret # <<>> /\ IsTag(Head(ret), TagInt) /\ Head(ret).val > 0
    /\ \E len \in times(Head(ret).val, k) :
          call' = [op |-> "len", count |-> Head(ret).val, size |-> k, len |-> len]
    /\ UNCHANGED <<policy, doc, framing, iterU, iterV, viewA, viewB, heap, other, input, pos, ss, ret, status, result>>

Length_BB == Length("BB", 4)

Length_CB == Length("CB", 8)

LenNext == Length_BB \/ Length_CB

LenSpec == LenInit /\ [][LenNext]_vars

(***************************************************************************)
(* Properties.                                                             *)
(***************************************************************************)
Explicit == policy = "no_implicit"

Implicit == policy = "implicit_compound"

Whole == input = FullOf(doc)

Done == status \notin {"running", "detecting", "maybe_gzip", "maybe_zlib"}

\* the input is a well-formed document of the policy it is parsed under
ValidRun ==
    /\ \/ Explicit /\ doc.form = "bare"
       \/ Implicit /\ doc.form \in {"named", "body"}
    /\ Whole
    /\ WellFormed(doc.wire)

\* after a return under ValidRun: the node parsed from doc.wire
ParsedAt ==
    IF Implicit /\ doc.form = "named"
    THEN compound_wrapper_subscript(compound(Root), doc.name)
    ELSE Root

Parsed == Deref(ParsedAt)

\* every string, array and list of the wire tree has at most n elements
RECURSIVE SizesWithin(_, _)
SizesWithin(w, n) ==
    CASE w.tag = TagString -> Len(StringBytes(w)) <= n
      [] w.tag \in ArrayTags -> Len(w.val) <= n
      [] w.tag = TagList ->
            /\ Len(w.val.elems) <= n
            /\ \A i \in 1..Len(w.val.elems) : SizesWithin(w.val.elems[i], n)
      [] w.tag = TagCompound ->
            \A i \in 1..Len(w.val) : SizesWithin(w.val[i].value, n)
      [] OTHER -> TRUE

\* C1: round trip.  For every tree T of the twelve variants with distinct
\* compound keys, parsing tag(T) | payload(T) under the explicit policy ends,
\* when it ends, by returning a tree equal to T (compounds compared as maps).
C1_RoundTrip ==
    (Explicit /\ Done /\ doc.form = "bare" /\ Whole
        /\ WellFormed(doc.wire) /\ DistinctKeys(doc.wire)
        /\ SizesWithin(doc.wire, MaxAlloc))
    => (status = "returned" /\ result = TreeOf(doc.wire))

C1_Witness ==
    /\ Explicit /\ doc.form = "bare" /\ Whole
    /\ doc.wire = WCompound(<<Entry(<<97>>, SList(1)), Entry(<<>>, SCompound(1))>>)
    /\ status = "returned"
    /\ result = TreeOf(doc.wire)

\* C2: truncated input is a failure.  A proper, non-empty prefix of a
\* well-formed explicit document makes parse fail with an error and return
\* no node.
C2_TruncatedInputFails ==
    (Explicit /\ Done /\ status # "beyond" /\ doc.form = "bare"
        /\ WellFormed(doc.wire)
        /\ Len(input) >= 1 /\ Len(input) < Len(FullOf(doc)))
    => (status = "threw" /\ result = NoNode)

\* the byte that is no tag stands where the policy expects a tag
BadTagRun ==
    /\ Whole
    /\ doc.wire \in BadTrees
    /\ \/ Explicit /\ doc.form = "bare"
       \/ Implicit /\ doc.form \in {"named", "body"}

\* C3: unknown tag is a failure.  A byte outside 0x00..0x0C where a tag is
\* expected (top level, compound entry tag, list element tag) makes parse
\* fail with an error, whatever follows it; no node is returned.
C3_UnknownTagFails ==
    (BadTagRun /\ Done /\ status # "beyond")
    => (status = "threw" /\ result = NoNode)

\* C4: no partial-tree return.  Whenever parse returns a node, the deque of
\* partial results holds exactly that one node: the returned node is the
\* root, never an inner container, an entry name or a tag or length scratch.
C4_NoPartialTreeReturn ==
    status = "returned" => (Len(ret) = 1 /\ result = ret[1])

\* what C5 says of every List of a wire tree w parsed into the node n
RECURSIVE ListsAgree(_, _)
ListsAgree(w, n) ==
    CASE w.tag = TagList ->
            /\ n.tag = TagList
            /\ Len(n.val) = w.val.count
            /\ \A i \in 1..Len(n.val) :
                  /\ n.val[i].tag = w.val.etag
                  /\ n.val[i] = TreeOf(w.val.elems[i])
                  /\ ListsAgree(w.val.elems[i], n.val[i])
      [] w.tag = TagCompound ->
            /\ n.tag = TagCompound
            /\ \A k \in {w.val[i].key : i \in 1..Len(w.val)} :
                  /\ k \in DOMAIN n.val
                  /\ ListsAgree(w.val[FirstIndex(w.val, k)].value, n.val[k])
      [] OTHER -> TRUE

\* C5: a List with element tag T in 1..12 and declared count N > 0 parses to
\* a List of exactly N elements, in wire order, each of the variant T; this
\* for every List of a well-formed document, nested ones included, under
\* either policy.
C5_ListElements ==
    (status = "returned" /\ ValidRun) => ListsAgree(doc.wire, Parsed)

C5_Witness ==
    /\ ValidRun /\ Implicit /\ status = "returned"
    /\ doc.wire = SList(2)
    /\ Len(Parsed.val) = 2
    /\ Len(Parsed.val[1].val) = 2
    /\ Parsed.val[1].val[2] = Node(TagByte, -1)

\* what C6 says of every Compound of a wire tree w parsed into the node at p
RECURSIVE CompoundsAgree(_, _)
CompoundsAgree(w, p) ==
    CASE w.tag = TagCompound ->
            /\ Deref(p).tag = TagCompound
            /\ compound_wrapper_size(compound(p)) = Len(w.val)
            /\ \A i \in 1..Len(w.val) :
                  LET at == compound_wrapper_at(compound(p), w.val[i].key)
                      sub == compound_wrapper_subscript(compound(p), w.val[i].key)
                  IN  /\ ~at.threw
                      /\ at.value # nullptr
                      /\ Deref(at.value) = TreeOf(w.val[i].value)
                      /\ sub = at.value
                      /\ CompoundsAgree(w.val[i].value, at.value)
      [] w.tag = TagList ->
            /\ Deref(p).tag = TagList
            /\ Len(Deref(p).val) = Len(w.val.elems)
            /\ \A i \in 1..Len(w.val.elems) :
                  CompoundsAgree(w.val.elems[i], Elem(p, i))
      [] OTHER -> TRUE

\* C6: for every Compound encoded with pairwise distinct keys, the map view
\* over the parsed Compound has as many entries as the wire had, and at(k)
\* and operator[](k) give the node parsed from the value that followed k.
C6_CompoundView ==
    (status = "returned" /\ ValidRun /\ DistinctKeys(doc.wire))
    => CompoundsAgree(doc.wire, ParsedAt)

C6_Witness ==
    /\ ValidRun /\ Explicit /\ status = "returned"
    /\ doc.wire = WCompound(<<Entry(<<>>, SCompound(1)), Entry(<<97>>, SList(1))>>)
    /\ compound_wrapper_size(compound(Root)) = 2
    /\ Deref(compound_wrapper_at(compound(Root), <<97>>).value) = TreeOf(SList(1))
    /\ compound_wrapper_size(compound(compound_wrapper_subscript(compound(Root), <<>>))) = 1

\* the wire tree is a Compound that repeats a key
RepeatsKey(w) == w.tag = TagCompound /\ ~DistinctSeq(KeysOf(w.val))

\* C7: duplicate compound key.  When a Compound repeats a key on the wire,
\* the key holds the value of its first occurrence; the later occurrence is
\* parsed in full and dropped, the entries after it are parsed as usual, and
\* the whole input is consumed.
C7_FirstKeyWins ==
    (Done /\ ValidRun /\ RepeatsKey(doc.wire))
    => /\ status = "returned"
       /\ Parsed.tag = TagCompound
       /\ DOMAIN Parsed.val = {doc.wire.val[i].key : i \in 1..Len(doc.wire.val)}
       /\ \A i \in 1..Len(doc.wire.val) :
             Parsed.val[doc.wire.val[i].key]
                = TreeOf(doc.wire.val[FirstIndex(doc.wire.val, doc.wire.val[i].key)].value)
       /\ pos = Len(input) + 1

C7_Witness ==
    /\ ValidRun /\ status = "returned"
    /\ doc.wire = WCompound(<<Entry(<<97>>, SList(1)), Entry(<<97>>, SCompound(1)),
                              Entry(<<>>, Node(TagIntArray, <<-2>>))>>)
    /\ Parsed.val[<<97>>] = TreeOf(SList(1))
    /\ Parsed.val[<<>>] = Node(TagIntArray, <<-2>>)

\* the root Compound with its outer name, parsed under the explicit policy
NamedRootRun ==
    /\ Explicit /\ Whole /\ doc.form = "named"
    /\ doc.wire.tag = TagCompound
    /\ WellFormed(doc.wire) /\ DistinctKeys(doc.wire)

\* the root Compound without a name, parsed under the explicit policy
BareRootRun ==
    /\ Explicit /\ Whole /\ doc.form = "bare"
    /\ doc.wire.tag = TagCompound
    /\ WellFormed(doc.wire) /\ DistinctKeys(doc.wire)

\* C8 as the specification states it: under the explicit policy the named
\* wrapper 0x0A | u16 nameLen | name | body | 0x00 is consumed whole and the
\* Compound of the body is returned.
C8_NamedRootParses ==
    (NamedRootRun /\ Done)
    => (status = "returned" /\ result = TreeOf(doc.wire) /\ pos = Len(input) + 1)

\* C8, amended: under the explicit policy the root Compound carries no name.
\* 0x0A | body | 0x00 is consumed whole and the Compound of the body is
\* returned; of the named wrapper (nameLen < 256) the first length byte is
\* taken for the End tag and the byte after it makes parse throw, with two
\* bytes consumed and no node returned.
C8_ExplicitRootHasNoName ==
    /\ (BareRootRun /\ Done)
         => (status = "returned" /\ result = TreeOf(doc.wire) /\ pos = Len(input) + 1)
    /\ (NamedRootRun /\ Done)
         => (status = "threw" /\ result = NoNode /\ pos = 3
                /\ ret = <<Node(TagCompound, EmptyCompound)>>)

C8_Witness ==
    /\ NamedRootRun
    /\ doc.name = <<104, 105>>
    /\ doc.wire = SCompound(1)
    /\ status = "threw"
    /\ pos = 3

\* C9: under the explicit policy, 0x0A, zero or more entries
\* tag | u16 nameLen | name | payload and a 0x00, then end of input, parse to
\* a Compound holding exactly those entries; 0A 00 is the empty Compound.
C9_ExplicitCompound ==
    (BareRootRun /\ Done)
    => /\ status = "returned"
       /\ result.tag = TagCompound
       /\ DOMAIN result.val = {doc.wire.val[i].key : i \in 1..Len(doc.wire.val)}
       /\ \A i \in 1..Len(doc.wire.val) :
             result.val[doc.wire.val[i].key] = TreeOf(doc.wire.val[i].value)
       /\ (input = <<TagCompound, TagEnd>> => result = Node(TagCompound, EmptyCompound))

C9_Witness ==
    /\ BareRootRun
    /\ input = <<TagCompound, TagEnd>>
    /\ status = "returned"
    /\ result = Node(TagCompound, EmptyCompound)

\* C10: under the implicit-root policy the full document
\* 0x0A | u16 nameLen | name | entries | 0x00, then end of input, is returned
\* as a root Compound of exactly one entry, keyed by the root name, whose
\* value is the Compound of the entries.
C10_ImplicitRoot ==
    (Implicit /\ Done /\ Whole /\ doc.form = "named" /\ doc.wire.tag = TagCompound
        /\ WellFormed(doc.wire) /\ DistinctKeys(doc.wire))
    => /\ status = "returned"
       /\ result.tag = TagCompound
       /\ DOMAIN result.val = {doc.name}
       /\ result.val[doc.name] = TreeOf(doc.wire)

C10_Witness ==
    /\ Implicit /\ Whole /\ doc.form = "named"
    /\ doc.name = <<104, 105>>
    /\ doc.wire = WCompound(<<Entry(<<97>>, Node(TagString, <<97, 195>>))>>)
    /\ status = "returned"
    /\ DOMAIN result.val = {<<104, 105>>}
    /\ result.val[<<104, 105>>].val[<<97>>] = Node(TagString, <<97, 195>>)

\* the value of a big-endian field, from its bytes as unsigned numbers
SignedByte(b) == IF b >= 128 THEN b - 256 ELSE b

BE16(b) ==
    LET u == b[1] * 256 + b[2]
    IN  IF u >= 32768 THEN u - 65536 ELSE u

BE32(b) == SignedByte(b[1]) * 16777216 + b[2] * 65536 + b[3] * 256 + b[4]

BE64(b) == <<BE32(SubSeq(b, 1, 4)), BE32(SubSeq(b, 5, 8))>>

Width(t) ==
    CASE t = TagByte -> 1
      [] t = TagShort -> 2
      [] t \in {TagInt, TagFloat} -> 4
      [] t \in {TagLong, TagDouble} -> 8

Decoded(t, b) ==
    CASE t = TagByte -> SignedByte(b[1])
      [] t = TagShort -> BE16(b)
      [] t \in {TagInt, TagFloat} -> BE32(b)
      [] t \in {TagLong, TagDouble} -> BE64(b)

\* C11: fixed-width scalars are decoded bit-exactly.  A Byte, Short, Int,
\* Long, Float or Double, alone or as an element of a List, takes exactly 1,
\* 2, 4, 8, 4, 8 payload bytes and its value is the big-endian bit pattern of
\* those bytes, two's complement for the integers and the IEEE bits for
\* Float and Double, bytes >= 0x80 and NaN payloads included.
C11_ScalarsBitExact ==
    (Explicit /\ Done /\ doc.form = "bare" /\ Whole)
    => /\ doc.wire.tag \in ScalarTags
          => /\ status = "returned"
             /\ pos = 2 + Width(doc.wire.tag)
             /\ pos = Len(input) + 1
             /\ result = Node(doc.wire.tag,
                              Decoded(doc.wire.tag, SubSeq(input, 2, Len(input))))
       /\ (doc.wire.tag = TagList /\ WellFormed(doc.wire)
              /\ doc.wire.val.etag \in ScalarTags)
          => LET t == doc.wire.val.etag
                 w == Width(t)
             IN  /\ status = "returned"
                 /\ pos = 7 + doc.wire.val.count * w
                 /\ pos = Len(input) + 1
                 /\ result.tag = TagList
                 /\ Len(result.val) = doc.wire.val.count
                 /\ \A i \in 1..Len(result.val) :
                       result.val[i]
                          = Node(t, Decoded(t, SubSeq(input, 7 + (i - 1) * w, 6 + i * w)))

C11_Witness ==
    /\ Explicit /\ doc.form = "bare" /\ Whole
    /\ input = <<TagList, TagFloat, 0, 0, 0, 2, 127, 192, 0, 1, 128, 0, 0, 0>>
    /\ status = "returned"
    /\ result = Node(TagList, <<Node(TagFloat, 2143289345),
                                Node(TagFloat, -2147483647 - 1)>>)
    /\ pos = 15

\* C12: a String's length prefix is an unsigned 16-bit byte count.  For every
\* declared length L in 0..65535, L >= 32768 included, the parser reads
\* exactly the L bytes after the prefix and emits the String of those bytes.
C12_StringLengthUnsigned ==
    (Explicit /\ Done /\ doc.form = "bare" /\ Whole /\ doc.wire.tag = TagString)
    => LET L == input[2] * 256 + input[3]
       IN  /\ status = "returned"
           /\ pos = 4 + L
           /\ result = Node(TagString, SubSeq(input, 4, 3 + L))

\* the payload width of one element of an array
ElemWidth(t) ==
    CASE t = TagByteArray -> 1
      [] t = TagIntArray -> 4
      [] t = TagLongArray -> 8

DecodedElem(t, b) ==
    CASE t = TagByteArray -> SignedByte(b[1])
      [] t = TagIntArray -> BE32(b)
      [] t = TagLongArray -> BE64(b)

C14_NonPositiveLengthIsEmpty ==
    (Explicit /\ Done /\ doc.form = "bare" /\ Whole /\ doc.wire \in ClampTrees)
    => /\ status = "returned"
       /\ result = TreeOf(doc.wire)
       /\ pos = Len(input) + 1
       /\ doc.wire.tag \in {TagByteArray, TagIntArray, TagLongArray}
             => (result = Node(doc.wire.tag, <<>>) /\ pos = 6)

C14_Witness ==
    /\ Explicit /\ doc.form = "bare" /\ Whole
    /\ input = <<TagCompound, TagIntArray, 0, 1, 97, 255, 255, 255, 255,
                 TagByte, 0, 0, 42, TagEnd>>
    /\ status = "returned"
    /\ result.val[<<97>>] = Node(TagIntArray, <<>>)
    /\ result.val[<<>>] = Node(TagByte, 42)

\* C15: a List with a negative declared count gives an empty list.  For
\* every element tag and every count in -2^31..-1 the parse succeeds, the
\* List has no elements and no element payload is consumed.
C15_NegativeCountIsEmpty ==
    (Explicit /\ Done /\ doc.form = "bare" /\ Whole /\ doc.wire \in NegativeLists)
    => /\ status = "returned"
       /\ result = TreeOf(doc.wire)
       /\ pos = Len(input) + 1
       /\ doc.wire.tag = TagList => (result = Node(TagList, <<>>) /\ pos = 7)

\* C16: a List of declared count 0, under element tag 0x00 or any tag in
\* 0x01..0x0C, parses to an empty List; its tag and count scratch nodes do
\* not stay in the deque, and parsing goes on with the byte right after the
\* 4-byte count (the next entry, the next element, the end of the input).
C16_ZeroCountIsEmpty ==
    (Done /\ ValidRun /\ doc.wire \in ZeroLists)
    => /\ status = "returned"
       /\ ret = <<result>>
       /\ Parsed = TreeOf(doc.wire)
       /\ pos = Len(input) + 1
       /\ doc.wire.tag = TagList /\ doc.wire.val.elems = <<>>
             => Parsed = Node(TagList, <<>>)

C16_Witness ==
    /\ Explicit /\ doc.form = "bare" /\ Whole
    /\ input = <<TagCompound, TagList, 0, 1, 97, TagCompound, 0, 0, 0, 0,
                 TagByte, 0, 0, 42, TagEnd>>
    /\ status = "returned"
    /\ ret = <<result>>
    /\ result.val[<<97>>] = Node(TagList, <<>>)
    /\ result.val[<<>>] = Node(TagByte, 42)

\* C17: a List whose declared element tag is 0x00 and whose declared count
\* is not zero is malformed input: the parse fails with an error and does
\* not return an empty list.
C17_EndTagWithCountFails ==
    (Explicit /\ Done /\ doc.form = "bare" /\ Whole /\ doc.wire \in EndLists)
    => (status = "threw" /\ result = NoNode)

\* C18: under the explicit policy a 0x00 (End) byte as the first byte of the
\* input is no document: the parse fails with an error, consumes nothing
\* and returns no node.
C18_EndAtTopLevelFails ==
    (Explicit /\ Done /\ input # <<>> /\ input[1] = TagEnd)
    => (status = "threw" /\ result = NoNode /\ pos = 1 /\ ret = <<>>)

C18_Witness ==
    /\ Explicit
    /\ input = <<TagEnd, TagCompound, TagEnd>>
    /\ status = "threw"
    /\ pos = 1

\* C19: within one parse call the bytes are consumed strictly left to right.
\* A step of the parser never moves the stream position back and never
\* beyond the end of the input, and never changes the input; the bytes a
\* step reads are those from the old position up to the new one, and its
\* dispatch looks at the one byte at the old position.
C19_LeftToRight ==
    [][status = "running"
         => (pos' >= pos /\ pos' <= Len(input) + 1 /\ input' = input)]_vars

C19_Witness ==
    /\ status = "returned"
    /\ Whole
    /\ pos = Len(input) + 1
    /\ Len(input) >= 20

\* C20: parse_auto chooses the framing from the first two bytes of the input
\* only: gzip iff b0 = 0x1F and b1 = 0x8B, zlib iff b0 = 0x78 and b1 is 0x01,
\* 0x9C or 0xDA, raw otherwise (an input of 0 or 1 bytes and a b0 that
\* matches without its b1 included).  The detection ends with the stream at
\* its start and never with an error.
C20_FramingFromTwoBytes ==
    LET isGzip == Len(input) >= 2 /\ input[1] = 31 /\ input[2] = 139
        isZlib == Len(input) >= 2 /\ input[1] = 120 /\ input[2] \in {1, 156, 218}
    IN  /\ framing = "undetected"
           <=> status \in {"detecting", "maybe_gzip", "maybe_zlib"}
        /\ framing = "undetected" => pos = 1
        /\ framing \in {"raw", "gzip", "zlib"}
           => /\ framing = "gzip" <=> isGzip
              /\ framing = "zlib" <=> isZlib
              /\ framing = "raw" <=> ~isGzip /\ ~isZlib
        /\ framing \in {"gzip", "zlib"} => (status = "beyond" /\ pos = 1)
        /\ (framing = "raw" /\ ss = (IF Implicit THEN <<"SA">> ELSE <<"S", "F">>)
              /\ ret = <<>> /\ status = "running")
           => pos = 1

C20_Witness ==
    /\ framing = "raw"
    /\ input = <<120, 139, 10>>
    /\ status = "threw"

\* the state in which parse starts on a stream: nothing read, the stack as
\* the policy initialises it, nothing built
ParseStart ==
    /\ pos = 1
    /\ ss = (IF Implicit THEN <<"SA">> ELSE <<"S", "F">>)
    /\ ret = <<>>
    /\ result = NoNode

Detecting == status \in {"detecting", "maybe_gzip", "maybe_zlib"}

\* C21: framing detection restores what it peeked.  Whatever parse_auto
\* decides, the step that ends the detection leaves the stream at the first
\* byte of the unchanged input; when the input is taken for raw NBT, parse
\* starts on it in the very state in which parse starts when it is called on
\* the same bytes directly, and a well-formed document given to parse_auto is
\* returned as the tree parse returns for it.
C21_DetectionRestores ==
    /\ [][(Detecting /\ ~Detecting')
            => /\ input' = input
               /\ input' = FullOf(doc')
               /\ ParseStart'
               /\ framing' = "raw" <=> status' = "running"
               /\ framing' \in {"gzip", "zlib"} <=> status' = "beyond"]_vars
    /\ []((framing = "raw" /\ Done /\ ValidRun /\ DistinctKeys(doc.wire))
            => (status = "returned" /\ Parsed = TreeOf(doc.wire)))

C21_Witness ==
    /\ framing = "raw"
    /\ Len(input) >= 2 /\ input[1] = 120 /\ input[2] = 139
    /\ status = "running"
    /\ ParseStart

\* the tree is the one parse returned
TreeIntact == result = TreeOf(doc.wire) /\ status = "returned"

\* C22: a primitive accessor (byte, short_, int_, long_, float_, double_,
\* byte_array, string, int_array, long_array) called on a node returns the
\* payload of that node when the node's variant is the accessor's, and fails
\* with std::bad_variant_access when it is another variant, Lists and
\* Compounds included; the tree is the same after the call.
C22_AccessorChecksVariant ==
    call.op = "getter"
    => /\ Deref(call.node).tag = call.tag
          => /\ call.out.how = "value"
             /\ call.out.ref = call.node
             /\ Deref(call.out.ref).val = NodeAt(TreeOf(doc.wire), call.node.path).val
       /\ Deref(call.node).tag # call.tag => call.out = Threw
       /\ TreeIntact

C22_Witness ==
    /\ call.op = "getter"
    /\ call.tag = TagByte
    /\ Len(call.node.path) = 2
    /\ call.out.how = "value"
    /\ Deref(call.out.ref) = Node(TagByte, -1)

\* C23: the accessors list, list.as<E> and compound, called on a node that
\* is no List (no Compound), fail with a type-mismatch error; the view they
\* give for a List (a Compound) borrows that node, and they never give a
\* view whose target is absent.
C23_AggregateAccessorsThrow ==
    call.op \in {"list", "compound"}
    => IF Deref(call.node).tag = (IF call.op = "list" THEN TagList ELSE TagCompound)
       THEN call.out.how = "view" /\ call.out.view.cont = call.node
       ELSE call.out.how = "threw"

\* the call reads an element of a List through a view: operator[] and at
\* within the size, front and back of a view that is not empty
ElementAccess ==
    /\ call.op \in {"subscript", "at", "front", "back"}
    /\ call.view.cont # nullptr
    /\ call.n < list_wrapper_size(call.view)

\* the element the call is about
Accessed ==
    Elem(call.view.cont,
         IF call.op = "back" THEN list_wrapper_size(call.view) ELSE call.n + 1)

\* C24: through a list view asked for with an element tag E that is not the
\* variant of the List's elements, every element access (operator[], at,
\* front, back, as dereferences of an iterator) fails with a type-mismatch
\* error; through a view asked for without E the access yields the element
\* as an untyped node, whatever its variant.
C24_TypedViewChecksElements ==
    ElementAccess
    => /\ (~is_default(call.view.alt) /\ Deref(Accessed).tag # call.view.alt + 1)
             => call.out.how = "threw"
       /\ is_default(call.view.alt) => call.out = Value(Accessed)

\* the view's element type is the variant of the element at position k of
\* its List, or the view class does not look at the variant (E omitted, or
\* _Alt 8, which hands out the element pointers)
WellTyped(view, k) ==
    \/ is_default(view.alt)
    \/ view.alt = AltOf(TagList)
    \/ Deref(Elem(view.cont, k)).tag = view.alt + 1

\* C25: at(i) of a list view returns the i-th element of the List it borrows
\* (0-based, in wire order), the element operator[](i) gives, when
\* i < size(); it fails with std::out_of_range when i >= size(), on an empty
\* view and on a default-constructed one too; the List is the same after the
\* call.  (Views whose element type is the variant of the elements, or that
\* have none.)
C25_AtChecksRange ==
    (call.op = "at" /\ call.view.cont # nullptr)
    => /\ call.n >= Len(Deref(call.view.cont).val) => call.out = Threw
       /\ (call.n < Len(Deref(call.view.cont).val)
             /\ WellTyped(call.view, call.n + 1))
          => /\ call.out = Value(Elem(call.view.cont, call.n + 1))
             /\ Deref(call.out.ref)
                  = NodeAt(TreeOf(doc.wire), call.view.cont.path).val[call.n + 1]
             /\ list_wrapper_subscript(call.view, call.n) = {call.out}
       /\ TreeIntact

C25_Witness ==
    /\ call.op = "at"
    /\ call.view.alt = AltOf(TagByte)
    /\ call.n = 1
    /\ call.out.how = "value"
    /\ Deref(call.out.ref) = Node(TagByte, -1)

\* C26: size() of a list view is the number of elements of the List it
\* borrows, size() of a map view the number of entries of its Compound; both
\* equal the number of increments that take begin() to end(); empty() holds
\* exactly when size() = 0; a default-constructed view of either class is
\* empty and equal to a copy of itself.
C26_SizeCountsElements ==
    /\ (call.op = "list_size" /\ call.view.cont # nullptr)
       => /\ call.out.how = "value"
          /\ call.out.val.size = Len(Deref(call.view.cont).val)
          /\ call.out.val.steps = call.out.val.size
          /\ call.out.val.empty <=> call.out.val.size = 0
          /\ call.view = list_wrapper_default(call.view.alt)
                => call.out.val.empty
    /\ (call.op = "map_size" /\ call.view.cont # nullptr)
       => /\ call.out.how = "value"
          /\ call.out.val.size = Cardinality(DOMAIN Deref(call.view.cont).val)
          /\ call.out.val.steps = call.out.val.size
          /\ call.out.val.empty <=> call.out.val.size = 0
          /\ call.view = compound_wrapper_default => call.out.val.empty
    /\ (call.op = "list_eq" /\ call.x = list_wrapper_default(call.x.alt)
          /\ call.y = list_wrapper_copy(call.x))
       => call.out = Answer(TRUE)
    /\ (call.op = "map_eq" /\ call.x = compound_wrapper_default
          /\ call.y = compound_wrapper_copy(call.x))
       => call.out = TRUE

C26_Witness ==
    /\ call.op = "list_size"
    /\ call.view.cont.space = "tree"
    /\ call.out.val.size = 2
    /\ call.out.val.steps = 2
    /\ ~call.out.val.empty

\* the two underlying lists have the same length and equal elements, one by
\* one, as nodes are equal: by structure
ElementWiseEqual(p, q) ==
    /\ Len(Deref(p).val) = Len(Deref(q).val)
    /\ \A i \in 1..Len(Deref(p).val) : Deref(Elem(p, i)) = Deref(Elem(q, i))

\* C27: two list views compare equal if and only if their underlying lists
\* have the same length and are element-wise equal, also when the two views
\* have different element types; two views over the same underlying list are
\* always equal, and == and != give opposite answers
C27_ListViewEquality ==
    /\ call.op = "list_eq" =>
          /\ call.out = Answer(ElementWiseEqual(call.x.cont, call.y.cont))
          /\ call.x.cont = call.y.cont => call.out = Answer(TRUE)
    /\ call.op = "list_ne" =>
          call.out = Answer(~ElementWiseEqual(call.x.cont, call.y.cont))

\* operator== answers false for two lists of the same length whose elements
\* are equal nodes
C27_EqualListsUnequal ==
    /\ call.op = "list_eq"
    /\ is_default(call.x.alt) /\ is_default(call.y.alt)
    /\ call.x.cont = Elem(Root, 1) /\ call.y.cont = Elem(Root, 2)
    /\ ElementWiseEqual(call.x.cont, call.y.cont)
    /\ call.out = Answer(FALSE)

\* two iterators of one view class at one position of one container
SamePlace(i, j) ==
    /\ i # NoIter /\ j # NoIter
    /\ i.of = j.of /\ i.alt = j.alt
    /\ i.cont = j.cont /\ i.it = j.it

\* the iterator is at an element its view class can yield: any entry of a
\* Compound, an element of a List whose variant is the view's element type
Yielding(i) ==
    /\ i # NoIter
    /\ Dereferenceable(i)
    /\ i.of = "list" => WellTyped(i, i.it)

\* the element at the iterator's position
ElementAt(i) ==
    IF i.of = "list"
    THEN Value(Elem(i.cont, i.it))
    ELSE [how |-> "value",
          ref |-> Child(i.cont, Buckets(i.cont)[i.it]),
          key |-> Buckets(i.cont)[i.it]]

\* C28: iterators of list views and map views are multi-pass: two iterators
\* at the same position of the same view compare equal, also after each has
\* been incremented the same number of times, and yield the same element;
\* incrementing a copy of an iterator changes neither the position of the
\* original nor the element it yields; dereferencing an iterator always
\* yields the element at its position.  (Positions a view can yield: see
\* C24 for typed views over elements of another variant.)
C28_MultiPass ==
    /\ [](/\ SamePlace(iterU, iterV)
             => /\ iterator_eq(iterU, iterV)
                /\ Yielding(iterU) => iterator_deref(iterU) = iterator_deref(iterV)
          /\ (call.op = "iter_eq" /\ SamePlace(iterU, iterV))
             => call.out = Answer(TRUE)
          /\ (call.op = "deref" /\ call.of = "u" /\ Yielding(iterU))
             => call.out = ElementAt(iterU)
          /\ (call.op = "deref" /\ call.of = "v" /\ Yielding(iterV))
             => call.out = ElementAt(iterV))
    /\ [][(iterV # NoIter /\ iterV' = iterator_incr(iterV))
            => /\ iterU' = iterU
               /\ Yielding(iterU) => iterator_deref(iterU') = {ElementAt(iterU)}]_vars

\* the copy has been incremented and dereferenced, the original is still at
\* the first element
C28_Witness ==
    /\ call.op = "deref" /\ call.of = "v"
    /\ iterU.of = "map" /\ iterU.cont = iterV.cont
    /\ iterU.it = 1 /\ iterV.it = 2
    /\ Yielding(iterV)
    /\ call.out = ElementAt(iterV)
    /\ ElementAt(iterU) # ElementAt(iterV)

\* the Compound a map view borrows: the document's, or the empty one of a
\* default-constructed view
Borrowed(view) ==
    IF view.cont.space = "tree"
    THEN NodeAt(TreeOf(doc.wire), view.cont.path)
    ELSE Node(TagCompound, EmptyCompound)

\* C29: at(key) of a map view returns the child stored under key when the
\* key is present and fails with std::out_of_range when it is absent;
\* operator[] returns the same child as at when the key is present and
\* nullptr when it is absent, never an error and never an insertion; the
\* Compound is the same after either call.
C29_MapLookup ==
    /\ call.op = "map_at"
       => /\ call.key \in DOMAIN Borrowed(call.view).val
             => /\ ~call.out.threw
                /\ call.out.value = Child(call.view.cont, call.key)
                /\ Deref(call.out.value) = Borrowed(call.view).val[call.key]
                /\ compound_wrapper_subscript(call.view, call.key) = call.out.value
          /\ call.key \notin DOMAIN Borrowed(call.view).val => call.out.threw
          /\ TreeIntact
    /\ call.op = "map_subscript"
       => /\ call.key \in DOMAIN Borrowed(call.view).val
             => /\ call.out = compound_wrapper_at(call.view, call.key).value
                /\ Deref(call.out) = Borrowed(call.view).val[call.key]
          /\ call.key \notin DOMAIN Borrowed(call.view).val => call.out = nullptr
          /\ DOMAIN Deref(call.view.cont).val = DOMAIN Borrowed(call.view).val
          /\ TreeIntact

\* operator[] was asked for a key that a Compound with entries, a child of
\* the root, does not have
C29_Witness ==
    /\ call.op = "map_subscript"
    /\ call.view.cont = Child(Root, <<97>>)
    /\ Borrowed(call.view) # Node(TagCompound, EmptyCompound)
    /\ call.key = <<98>>
    /\ call.out = nullptr

\* C30: two map views compare equal exactly when they refer to the same
\* Compound object: views over the same Compound are equal, views over two
\* distinct Compounds that hold identical keys and values are unequal;
\* operator!= is the negation.
C30_MapViewIdentity ==
    /\ (call.op = "map_eq" /\ call.x.cont # nullptr /\ call.y.cont # nullptr)
       => /\ call.out <=> call.x.cont = call.y.cont
          /\ (call.x.cont # call.y.cont /\ Deref(call.x.cont) = Deref(call.y.cont))
                => ~call.out
    /\ (call.op = "map_ne" /\ call.x.cont # nullptr /\ call.y.cont # nullptr)
       => (call.out <=> call.x.cont # call.y.cont)

\* two children of the root are Compounds with the same single entry, and
\* their views were compared
C30_Witness ==
    /\ call.op = "map_eq"
    /\ call.x.cont = Child(Root, <<97>>) /\ call.y.cont = Child(Root, <<>>)
    /\ Deref(call.x.cont) = Deref(call.y.cont)
    /\ Deref(call.x.cont).tag = TagCompound
    /\ DOMAIN Deref(call.x.cont).val # {}
    /\ ~call.out

\* C31: view handles only rebind: after a = b both views refer to the
\* container b referred to; after a.swap(b) or swap(a, b) each view refers to
\* the container the other referred to before; a copy refers to the container
\* of its original; across copies, assignments and swaps of list and map
\* views the contents of every container stay as parse returned them.
C31_HandlesRebind ==
    /\ call.op = "assign"
       => viewA.cont = call.b.cont /\ viewB.cont = call.b.cont
    /\ call.op \in {"swap", "swap_friend"}
       => viewA.cont = call.b.cont /\ viewB.cont = call.a.cont
    /\ call.op = "copy"
       => viewA.cont = call.a.cont /\ viewB.cont = call.a.cont
    /\ TreeIntact
    /\ \A h \in {viewA, viewB} :
          h.cont.space = "tree"
          => Deref(h.cont) = NodeAt(TreeOf(doc.wire), h.cont.path)

\* two list views over different Lists of the tree have been swapped
C31_Witness ==
    /\ call.op = "swap"
    /\ viewA.of = "list"
    /\ call.a.cont.space = "tree" /\ call.b.cont.space = "tree"
    /\ call.a.cont # call.b.cont
    /\ Deref(call.a.cont) # Deref(call.b.cont)
    /\ viewA.cont = call.b.cont /\ viewB.cont = call.a.cont

\* C32: the parsed tree is read-only through the accessors and views: after
\* any sequence of accessor calls, view constructions, view queries (size,
\* empty, at, operator[], front, back, ==, !=) and the iterator walks they
\* make, the tree is the tree parse returned, and so is every node a pointer
\* of the caller leads to.
C32_TreeReadOnly ==
    /\ status = "returned"
    /\ result = TreeOf(doc.wire)
    /\ \A p \in Nodes : Deref(p) = NodeAt(TreeOf(doc.wire), p.path)

\* operator[] of the view of the root Compound was asked for a key the
\* Compound does not have, and the Compound has its two entries
C32_Witness ==
    /\ call.op = "map_subscript"
    /\ call.view.cont = Root
    /\ call.key \notin DOMAIN TreeOf(doc.wire).val
    /\ DOMAIN result.val = {<<97>>, <<>>}

\* every node the call allocated is owned by the root, was destroyed, or is
\* one of the nodes that lost their owner
Accounted ==
    status = "returned"
    => heap.allocated = heap.destroyed + NodeCount(result) + NodesIn(heap.lost)

\* C34: every node the parser allocates during a call is, when the call
\* returns a root, either owned transitively by that root or already
\* destroyed; no allocated node is left without an owner, the values of
\* repeated Compound keys and the tag, count and length scratch nodes
\* included.
C34_EveryNodeOwned ==
    status = "returned"
    => /\ heap.lost = <<>>
       /\ heap.allocated = heap.destroyed + NodeCount(result)

\* a whole document has been parsed and returned, and the value of a repeated
\* key is without an owner
C34_RepeatedKeyValueLost ==
    /\ status = "returned"
    /\ input = FullOf(doc)
    /\ result = TreeOf(doc.wire)
    /\ heap.lost # <<>>

\* both calls are over
BothDone ==
    /\ other # NoOther
    /\ Done
    /\ other.status \notin {"running", "detecting", "maybe_gzip", "maybe_zlib"}

\* C33: parse calls are independent: two calls on two streams, their
\* transitions interleaved in any order, each end as they end when run alone;
\* in particular two calls on the same bytes under the same policy end the
\* same way and, when they return, return equal trees, and a call on a
\* well-formed document returns the tree of the document whatever the other
\* call does.
C33_CallsIndependent ==
    BothDone
    => /\ (input = other.input /\ policy = other.policy /\ framing = other.framing)
          => status = other.status /\ result = other.result
       /\ (ValidRun /\ framing = "none")
          => status = "returned" /\ result = TreeOf(doc.wire)

\* two calls on the bytes 02 01 under the explicit policy have returned two
\* different Shorts
C33_SameBytesTwoTrees ==
    /\ BothDone
    /\ policy = "no_implicit" /\ other.policy = "no_implicit"
    /\ input = <<2, 1>> /\ other.input = <<2, 1>>
    /\ status = "returned" /\ other.status = "returned"
    /\ result # other.result

\* C35: in every reachable configuration of parse, under both policies and
\* for every input, the control stack is non-empty when the dispatch loop
\* reads its top; consuming an End tag in state NTS never leaves the loop
\* with an empty control stack.
C35_StackNeverEmpty == status = "running" => ss # <<>>

\* the End tag that closes the implicit root Compound has been consumed and
\* the loop is about to read the top of the empty stack
C35_EmptyAfterEnd ==
    /\ status = "running"
    /\ Implicit
    /\ ss = <<>>
    /\ pos > 1 /\ input[pos - 1] = TagEnd
    /\ ret = <<Node(TagCompound, EmptyCompound)>>

\* C36: for every finite input and either policy parse ends after finitely
\* many transitions, with a node or with a failure; end of input inside a
\* List that still has elements to come, or inside a Compound, does not make
\* the automaton loop for ever.
C36_Terminates == <>Done

\* the input ended after the header of a List of two elements, and the call
\* has returned
C36_Witness ==
    /\ Done
    /\ status = "returned"
    /\ input # FullOf(doc)
    /\ Len(input) = 6
    /\ pos = Len(input) + 1
    /\ result.tag = TagList
    /\ Len(result.val) = 2

\* the deque has at least n nodes and the i-th of them is of variant t
Holds(i, t) == Len(ret) >= i /\ ret[i].tag = t

\* C37: whenever a continuation state is on top of the control stack, the
\* deque has the layout the state's case dereferences: for S7A, SBA and SCA
\* the front node is an Int; for S8A a Short; for S9A the front three nodes
\* are the Int count, the Byte tag and the List; for S9B the front four are
\* the finished child, an Int count >= 1, the Byte tag and the List under
\* construction; for NT the front two are the String name and the Byte tag;
\* for SAB the front four are the value, the String name, the Byte tag and
\* the Compound under construction.
C37_DequeLayout ==
    (status = "running" /\ ss # <<>>)
    => /\ Top \in {"S7A", "SBA", "SCA"} => Holds(1, TagInt)
       /\ Top = "S8A" => Holds(1, TagShort)
       /\ Top = "S9A" => Holds(1, TagInt) /\ Holds(2, TagByte) /\ Holds(3, TagList)
       /\ Top = "S9B"
          => /\ Len(ret) >= 4
             /\ Holds(2, TagInt) /\ ret[2].val >= 1
             /\ Holds(3, TagByte)
             /\ ret[1].tag = ret[3].val
             /\ Holds(4, TagList)
       /\ Top = "NT" => Holds(1, TagString) /\ Holds(2, TagByte)
       /\ Top = "SAB"
          => /\ Len(ret) >= 4
             /\ Holds(2, TagString)
             /\ Holds(3, TagByte)
             /\ ret[1].tag = ret[3].val
             /\ Holds(4, TagCompound)

\* S9B is on top with the second of two Lists as the finished child, inside
\* a Compound under construction
C37_Witness ==
    /\ status = "running"
    /\ ss # <<>>
    /\ Top = "S9B"
    /\ Len(ret) >= 7
    /\ ret[1].tag = TagList
    /\ ret[2] = Node(TagInt, 1)
    /\ Len(ret[4].val) = 1
    /\ ret[7].tag = TagCompound

\* C38: under the explicit policy the parser accepts only when end of input
\* immediately follows the root value: a byte left after the root payload
\* makes the parse fail with no node returned, so every successful explicit
\* parse has consumed the whole input.
C38_AcceptsOnlyAtEof ==
    /\ (Explicit /\ status = "returned")
         => (pos = Len(input) + 1 /\ Peek = EOF /\ result # NoNode)
    /\ (Explicit /\ Done /\ pos <= Len(input))
         => (status # "returned" /\ result = NoNode)

\* a whole root value followed by one more byte: the parse threw with the
\* root node built and the extra byte as the lookahead
C38_Witness ==
    /\ Explicit
    /\ status = "threw"
    /\ ss = <<"F">>
    /\ Len(ret) = 1
    /\ ret[1].tag = TagList
    /\ pos = Len(input)
    /\ result = NoNode

\* the last n elements of s
Suffix(s, n) == SubSeq(s, Len(s) - n + 1, Len(s))

\* C39: with the payload state S_T on top of the control stack and a
\* well-formed payload of T as the input that follows, the automaton runs
\* on until that stack level is popped; the control states below it are
\* then as they were, and the deque has exactly one more node at the front,
\* of variant T, with all nodes beneath it unchanged.
C39_StackDiscipline ==
    LET below == Below(policy, doc.form)
        beneath == Beneath(doc.form, doc.wire)
    IN  /\ status = "running"
        /\ Level >= 0
        /\ Suffix(ss, Len(below)) = below
        /\ Len(ret) >= Len(beneath)
        /\ Suffix(ret, Len(beneath)) = beneath
        /\ Level > 0 => Label \in PayloadCases
        /\ Level = 0
             => /\ ss = below
                /\ Len(ret) = Len(beneath) + 1
                /\ Head(ret).tag = doc.wire.tag
                /\ Head(ret) = TreeOf(doc.wire)
                /\ Tail(ret) = beneath
                /\ pos = Before(policy, doc.form) + Len(Payload(doc.wire)) + 1

\* the level of a Compound that holds a List of two Bytes, itself the one
\* entry of a Compound, has been popped
C39_Witness ==
    /\ doc.form = "entry"
    /\ doc.wire.tag = TagCompound
    /\ Level = 0
    /\ Len(ret) = 4
    /\ ret[1].tag = TagCompound
    /\ <<97>> \in DOMAIN ret[1].val
    /\ ret[1].val[<<97>>].tag = TagList
    /\ Len(ret[1].val[<<97>>].val) = 2
    /\ ret[4] = Node(TagCompound, EmptyCompound)

\* C40: for every declared IntArray or LongArray count N in 1..2^31-1 the
\* byte length the parser requests is exactly 4 N (IntArray) or 8 N
\* (LongArray): the computation of the length does not wrap in 32-bit
\* signed arithmetic.
C40_LengthExact ==
    call.op = "len"
    => /\ call.len.how = "value"
       /\ call.len.len >= 0
       /\ WideOf(call.len.len) = Wide(call.count, call.size)

\* the count 2^29 of an IntArray gave the length -2^31
C40_LengthWrapped ==
    /\ call.op = "len"
    /\ call.count = 536870912
    /\ call.size = 4
    /\ call.len = [how |-> "value", len |-> -2147483647 - 1]

=============================================================================
